---- MODULE Spec2Model ----
(***************************************************************************)
(* Model of the blog generator: the blog-build command line (convert,      *)
(* build-all, update-metadata, help), the md-to-html-fixed command line    *)
(* and its regex Markdown pipeline.                                        *)
(*                                                                         *)
(* Text (file names, Markdown, HTML) is a sequence of one-character        *)
(* strings, so that startsWith / endsWith / replace and the regular        *)
(* expressions are computed character by character as the code does.       *)
(***************************************************************************)
EXTENDS Integers, Sequences, FiniteSets, TLC

VARIABLES
    fsys,     \* the posts directory: path -> file content, or NoFile
    index,    \* content of posts/metadata.json: the posts array, or NoIndex
    proc,     \* the last process run, from its command line to its exit
    md,       \* state of one parseMarkdown call
    fm,       \* state of one parseFrontMatter call
    web       \* the blog page in the browser: BlogSystem, CategoryRouter, DOM

vars == <<fsys, index, proc, md, fm, web>>

(***************************************************************************)
(* Text helpers                                                            *)
(***************************************************************************)

\* String.prototype.startsWith
StartsWith(s, p) ==
    /\ Len(s) >= Len(p)
    /\ SubSeq(s, 1, Len(p)) = p

\* String.prototype.endsWith
EndsWith(s, p) ==
    /\ Len(s) >= Len(p)
    /\ SubSeq(s, Len(s) - Len(p) + 1, Len(s)) = p

\* p occurs in s at position i
At(s, i, p) ==
    /\ i >= 1
    /\ i + Len(p) - 1 <= Len(s)
    /\ SubSeq(s, i, i + Len(p) - 1) = p

\* String.prototype.includes
Includes(s, p) == \E i \in 1..(Len(s) + 1) : At(s, i, p)

DotMd == <<".", "m", "d">>
DotHtml == <<".", "h", "t", "m", "l">>

\* file.replace(/\.md$/, '.html')
ReplaceMdSuffix(name) ==
    IF EndsWith(name, DotMd)
    THEN SubSeq(name, 1, Len(name) - Len(DotMd)) \o DotHtml
    ELSE name

(***************************************************************************)
(* The posts directory                                                     *)
(***************************************************************************)

MaxDay == 3                 \* posts are dated 2025-07-01 .. 2025-07-MaxDay

AMd == <<"a", ".", "m", "d">>
BMd == <<"b", ".", "m", "d">>
CMd == <<"c", ".", "m", "d">>
HiddenMd == <<".", "h", ".", "m", "d">>
NotesTxt == <<"n", ".", "t", "x", "t">>
OutHtml == <<"o", ".", "h", "t", "m", "l">>
GonePath == <<"g", ".", "m", "d">>      \* a path that never exists
OutDir == <<"o", "u", "t">>             \* a directory other than ./posts
\* metadata.json of the posts directory; its content is the variable index
MetadataJson == <<"m", "e", "t", "a", "d", "a", "t", "a", ".", "j", "s", "o", "n">>

\* path.join(dir, file), NoArg standing for the posts directory itself
PathJoin(dir, file) == IF dir = <<>> THEN file ELSE dir \o <<"/">> \o file

\* the directory of a path: OutDir or, written <<>>, the posts directory
DirName(path) == IF StartsWith(path, OutDir \o <<"/">>) THEN OutDir ELSE <<>>

\* the value of a front-matter date field: absent or empty, an ISO date of
\* July 2025, or text that is not a date
NoDate == [kind |-> "empty", day |-> 0]
IsoDate(d) == [kind |-> "iso", day |-> d]
TextDate == [kind |-> "text", day |-> 0]

\* the value of a front-matter tags field: absent, a scalar or a list
NoTags == [list |-> FALSE, items |-> <<>>]
ScalarTags(text) == [list |-> FALSE, items |-> <<text>>]
ListTags(items) == [list |-> TRUE, items |-> items]

\* the other front-matter fields of a document, <<>> and "" when absent.
\* Titles, excerpts, tags and categories are sequences of characters, the
\* texts that are only copied are strings.
NoFields ==
    [category |-> <<>>, excerpt |-> <<>>, tags |-> NoTags, readTime |-> "",
     author |-> ""]

NoFile ==
    [kind |-> "none", readable |-> FALSE, title |-> <<>>, date |-> NoDate,
     fields |-> NoFields]
HtmlFile == [NoFile EXCEPT !.kind = "html", !.readable = TRUE]
Directory == [NoFile EXCEPT !.kind = "dir", !.readable = TRUE]
JsonFile == [NoFile EXCEPT !.kind = "json", !.readable = TRUE]
MdFile(readable, title, date) ==
    [kind |-> "md", readable |-> readable, title |-> title, date |-> date,
     fields |-> NoFields]
MdFileWith(file, fields) == [file EXCEPT !.fields = fields]

\* fs.existsSync(path)
Exists(fs, path) == path \in DOMAIN fs /\ fs[path] # NoFile

IsMarkdownFileOrHidden(file) == EndsWith(file, DotMd)

\* files.filter(file => file.endsWith('.md') && !file.startsWith('.'))
IsMarkdownFile(file) == EndsWith(file, DotMd) /\ ~StartsWith(file, <<".">>)

\* every sequence that lists the elements of S once
RECURSIVE Orderings(_)
Orderings(S) ==
    IF S = {} THEN {<<>>}
    ELSE UNION {{<<x>> \o rest : rest \in Orderings(S \ {x})} : x \in S}

RECURSIVE InSomeOrder(_)
InSomeOrder(S) ==
    IF S = {} THEN <<>>
    ELSE LET x == CHOOSE y \in S : TRUE IN <<x>> \o InSomeOrder(S \ {x})

\* fs.readdirSync(inputDir): the names of the directory, in an order the
\* file system chooses. Both callers filter the list at once and the filter
\* keeps the order, so only the order among the names it keeps is varied;
\* the other names follow in one order.
ReadDirOf(fs, dir) ==
    LET paths == {p \in DOMAIN fs : fs[p] # NoFile /\ p # OutDir /\ DirName(p) = dir}
        names == {SubSeq(p, Len(PathJoin(dir, <<>>)) + 1, Len(p)) : p \in paths}
        kept == {p \in names : IsMarkdownFile(p)}
    IN  {o \o InSomeOrder(names \ kept) : o \in Orderings(kept)}

\* the names of the posts directory
ReadDir(fs) == ReadDirOf(fs, <<>>)

MarkdownFiles(files) == SelectSeq(files, IsMarkdownFile)

\* parseFrontMatter(markdownContent).frontMatter of a stored document: the
\* fields of its front-matter block (<<>>, "" or NoDate when absent)
FrontMatterOf(file) ==
    [title |-> file.title, date |-> file.date,
     category |-> file.fields.category, excerpt |-> file.fields.excerpt,
     tags |-> file.fields.tags, readTime |-> file.fields.readTime,
     author |-> file.fields.author]

(***************************************************************************)
(* blog-build: convertFile, convertAllFiles, updateMetadata                *)
(***************************************************************************)

\* the try block of convertFile: read the document, transform it, write the
\* page. readFileSync throws on a missing or unreadable file, writeFileSync
\* on a path whose directory does not exist.
TryConvert(fs, inputPath, outputPath) ==
    IF \/ ~Exists(fs, inputPath)
       \/ ~fs[inputPath].readable
       \/ (DirName(outputPath) # <<>> /\ ~Exists(fs, DirName(outputPath)))
    THEN [ok |-> FALSE, fs |-> fs]
    ELSE [ok |-> TRUE, fs |-> [fs EXCEPT ![outputPath] = HtmlFile]]

\* convertFile whose catch logs and returns
ConvertFileReturning(fs, inputPath, outputPath) ==
    LET r == TryConvert(fs, inputPath, outputPath)
    IN  [exited |-> FALSE, threw |-> FALSE, code |-> 0, fs |-> r.fs,
         log |-> IF r.ok THEN <<"Converted">> ELSE <<"Error converting">>]

\* blog-build convertFile: the catch logs and calls process.exit(1); nothing
\* is ever thrown to the caller
ConvertFile(fs, inputPath, outputPath) ==
    LET r == TryConvert(fs, inputPath, outputPath)
    IN  IF r.ok
        THEN [exited |-> FALSE, threw |-> FALSE, code |-> 0, fs |-> r.fs,
              log |-> <<"Converted">>]
        ELSE [exited |-> TRUE, threw |-> FALSE, code |-> 1, fs |-> r.fs,
              log |-> <<"Error converting">>]

\* markdownFiles.forEach of convertAllFiles
RECURSIVE ConvertLoop(_, _, _, _, _, _)
ConvertLoop(fs, files, outputDir, converted, failed, log) ==
    IF files = <<>>
    THEN [exited |-> FALSE, code |-> 0, fs |-> fs, converted |-> converted,
          failed |-> failed, log |-> log]
    ELSE LET file == Head(files)
             r == ConvertFile(fs, file, PathJoin(outputDir, ReplaceMdSuffix(file)))
         IN  IF r.exited
             THEN [exited |-> TRUE, code |-> r.code, fs |-> r.fs,
                   converted |-> converted, failed |-> failed,
                   log |-> log \o r.log]
             ELSE IF r.threw
             THEN ConvertLoop(r.fs, Tail(files), outputDir, converted, failed + 1,
                              log \o r.log \o <<"Failed to convert">>)
             ELSE ConvertLoop(r.fs, Tail(files), outputDir, converted + 1, failed,
                              log \o r.log)

\* if (!fs.existsSync(outputDir)) fs.mkdirSync(outputDir, { recursive: true })
EnsureDir(fs, dir) ==
    IF dir # <<>> /\ ~Exists(fs, dir) THEN [fs EXCEPT ![dir] = Directory] ELSE fs

\* convertAllFiles(inputDir, outputDir), files being readdirSync(inputDir)
ConvertAllFiles(fs, files, outputDir) ==
    LET markdownFiles == MarkdownFiles(files)
        made == EnsureDir(fs, outputDir)
    IN  IF Len(markdownFiles) = 0
        THEN [exited |-> FALSE, code |-> 0, fs |-> made, converted |-> 0,
              failed |-> 0, log |-> <<"No markdown files found">>]
        ELSE LET r == ConvertLoop(made, markdownFiles, outputDir, 0, 0, <<"Found">>)
             IN  IF r.exited THEN r
                 ELSE [r EXCEPT !.log =
                          r.log \o <<"Conversion Summary">>
                                \o (IF r.failed > 0 THEN <<"Failed conversions">> ELSE <<>>)
                                \o <<"Output directory">>]

PostsUrl == <<".", "/", "p", "o", "s", "t", "s", "/">>

General == <<"g", "e", "n", "e", "r", "a", "l">>

\* a postEntry that takes the tags field as it is
PostEntryKeepingTags(file, frontMatter) ==
    [title |-> frontMatter.title,
     date |-> frontMatter.date,
     category |-> IF frontMatter.category # <<>> THEN frontMatter.category
                  ELSE General,
     excerpt |-> frontMatter.excerpt,
     tags |-> frontMatter.tags.items,
     url |-> PostsUrl \o ReplaceMdSuffix(file),
     readTime |-> IF frontMatter.readTime # "" THEN frontMatter.readTime
                  ELSE "5 min read",
     author |-> IF frontMatter.author # "" THEN frontMatter.author
                ELSE "Prashish Phunyal"]

\* the postEntry of updateMetadata
PostEntry(file, frontMatter) ==
    [title |-> frontMatter.title,
     date |-> frontMatter.date,
     category |-> IF frontMatter.category # <<>> THEN frontMatter.category
                  ELSE General,
     excerpt |-> frontMatter.excerpt,
     tags |-> IF frontMatter.tags.list THEN frontMatter.tags.items ELSE <<>>,
     url |-> PostsUrl \o ReplaceMdSuffix(file),
     readTime |-> IF frontMatter.readTime # "" THEN frontMatter.readTime
                  ELSE "5 min read",
     author |-> IF frontMatter.author # "" THEN frontMatter.author
                ELSE "Prashish Phunyal"]

\* markdownFiles.forEach of updateMetadata: a read that throws ends the loop
RECURSIVE CollectPosts(_, _, _)
CollectPosts(fs, files, posts) ==
    IF files = <<>> THEN [ok |-> TRUE, posts |-> posts]
    ELSE LET file == Head(files)
         IN  IF ~Exists(fs, file) \/ ~fs[file].readable
             THEN [ok |-> FALSE, posts |-> posts]
             ELSE LET frontMatter == FrontMatterOf(fs[file])
                  IN  IF frontMatter.title # <<>> /\ frontMatter.date # NoDate
                      THEN CollectPosts(fs, Tail(files),
                                        Append(posts, PostEntry(file, frontMatter)))
                      ELSE CollectPosts(fs, Tail(files), posts)

MsPerDay == 86400000
\* new Date(date): milliseconds (counted from 2025-06-30T00:00Z), or NaN
NewDate(date) ==
    IF date.kind = "iso"
    THEN [nan |-> FALSE, t |-> date.day * MsPerDay]
    ELSE [nan |-> TRUE, t |-> 0]

\* the comparator with its operands swapped: oldest first
CompareByDateAscending(a, b) ==
    LET x == NewDate(a.date)
        y == NewDate(b.date)
    IN  IF x.nan \/ y.nan THEN [nan |-> TRUE, v |-> 0]
        ELSE [nan |-> FALSE, v |-> x.t - y.t]

\* (a, b) => new Date(b.date) - new Date(a.date)
CompareByDate(a, b) ==
    LET x == NewDate(b.date)
        y == NewDate(a.date)
    IN  IF x.nan \/ y.nan THEN [nan |-> TRUE, v |-> 0]
        ELSE [nan |-> FALSE, v |-> x.t - y.t]

\* b is inserted after every element that does not sort after it
RECURSIVE InsertPost(_, _)
InsertPost(sorted, b) ==
    IF sorted = <<>> THEN <<b>>
    ELSE IF CompareByDate(Head(sorted), b).v > 0
         THEN <<b>> \o sorted
         ELSE <<Head(sorted)>> \o InsertPost(Tail(sorted), b)

RECURSIVE StableSort(_)
StableSort(posts) ==
    IF posts = <<>> THEN <<>>
    ELSE InsertPost(StableSort(SubSeq(posts, 1, Len(posts) - 1)), posts[Len(posts)])

\* posts.sort(comparefn): a stable sort when the comparator is consistent; with
\* a NaN difference it is not, and the order is implementation-defined
SortOutcomes(posts) ==
    IF \E i, j \in 1..Len(posts) : CompareByDate(posts[i], posts[j]).nan /\ Len(posts) > 1
    THEN {[i \in 1..Len(posts) |-> posts[f[i]]] : f \in Orderings(1..Len(posts))}
    ELSE {StableSort(posts)}

\* updateMetadata that appends to the posts of the index it finds
UpdateMetadataMerging(fs, oldIndex, files, sorted) ==
    [exited |-> FALSE, code |-> 0, index |-> oldIndex \o sorted,
     log |-> <<"Processing", "Updated metadata.json">>]

\* updateMetadata(inputDir): the outcome when the sort returns `sorted`
UpdateMetadata(fs, oldIndex, files, sorted) ==
    LET r == CollectPosts(fs, MarkdownFiles(files), <<>>)
    IN  IF r.ok
        THEN [exited |-> FALSE, code |-> 0, index |-> sorted,
              log |-> <<"Processing", "Updated metadata.json">>]
        ELSE [exited |-> TRUE, code |-> 1, index |-> oldIndex,
              log |-> <<"Processing", "Error updating metadata">>]

\* the arrays the sort of updateMetadata may return
SortedPosts(fs, files) ==
    LET r == CollectPosts(fs, MarkdownFiles(files), <<>>)
    IN  IF r.ok THEN SortOutcomes(r.posts) ELSE {<<>>}

(***************************************************************************)
(* md-to-html-fixed: convertFile                                           *)
(***************************************************************************)

\* md-to-html-fixed convertFile: returns true, or logs and returns false
FixedConvertFile(fs, inputPath, outputPath) ==
    LET r == TryConvert(fs, inputPath, outputPath)
    IN  IF r.ok
        THEN [returned |-> TRUE, fs |-> r.fs, log |-> <<"Converted">>]
        ELSE [returned |-> FALSE, fs |-> r.fs, log |-> <<"Error converting">>]

\* inputPath.replace('.md', '.html'): the first occurrence, wherever it is
RECURSIVE ReplaceFirstMd(_)
ReplaceFirstMd(path) ==
    IF path = <<>> THEN <<>>
    ELSE IF StartsWith(path, DotMd)
         THEN DotHtml \o SubSeq(path, Len(DotMd) + 1, Len(path))
         ELSE <<Head(path)>> \o ReplaceFirstMd(Tail(path))

(***************************************************************************)
(* The command lines. A run is one step: the process starts, does all of   *)
(* its work and exits. proc keeps the command, the exit status and the     *)
(* messages of the last run; editing the directory forgets it.             *)
(***************************************************************************)

NoIndex == <<>>
NoArg == <<>>

NoProc ==
    [tool |-> "none", cmd |-> "", input |-> NoArg, exit |-> 0, log |-> <<>>,
     converted |-> 0, failed |-> 0, dropped |-> FALSE, output |-> <<>>]

Exited(tool, cmd, input, exit, log, converted, failed) ==
    [tool |-> tool, cmd |-> cmd, input |-> input, exit |-> exit, log |-> log,
     converted |-> converted, failed |-> failed, dropped |-> FALSE,
     output |-> <<>>]

\* node blog-build.js
BlogBuildNoCommand ==
    /\ proc' = Exited("blog-build", "", NoArg, 1, <<"Usage">>, 0, 0)
    /\ UNCHANGED <<fsys, index, md, fm, web>>

\* help ending as the no-command branch does
BlogBuildHelpExiting ==
    /\ proc' = Exited("blog-build", "help", NoArg, 1, <<"Usage">>, 0, 0)
    /\ UNCHANGED <<fsys, index, md, fm, web>>

\* node blog-build.js help: the usage is printed and the switch is left, so
\* the process ends by itself, with status 0
BlogBuildHelp ==
    /\ proc' = Exited("blog-build", "help", NoArg, 0, <<"Usage">>, 0, 0)
    /\ UNCHANGED <<fsys, index, md, fm, web>>

\* node blog-build.js <anything else>
BlogBuildUnknown ==
    /\ proc' = Exited("blog-build", "unknown", NoArg, 1,
                      <<"Unknown command", "Run help">>, 0, 0)
    /\ UNCHANGED <<fsys, index, md, fm, web>>

ConvertInputs == {AMd, BMd, NotesTxt, GonePath}
ConvertOutputs == {NoArg, OutHtml}

\* node blog-build.js convert [input] [output]
BlogBuildConvert ==
    \E input \in ConvertInputs \cup {NoArg}, output \in ConvertOutputs :
        IF input = NoArg
        THEN /\ proc' = Exited("blog-build", "convert", NoArg, 1,
                               <<"convert command requires input file", "Usage">>, 0, 0)
             /\ UNCHANGED <<fsys, index, md, fm, web>>
        ELSE LET inputPath == input
                 outputPath == IF output # NoArg THEN output
                               ELSE ReplaceMdSuffix(inputPath)
             IN  IF ~Exists(fsys, inputPath)
                 THEN /\ proc' = Exited("blog-build", "convert", inputPath, 1,
                                        <<"Input file not found">>, 0, 0)
                      /\ UNCHANGED <<fsys, index, md, fm, web>>
                 ELSE LET r == ConvertFile(fsys, inputPath, outputPath)
                      IN  /\ proc' = Exited("blog-build", "convert", inputPath,
                                            r.code, r.log, 0, 0)
                          /\ fsys' = r.fs
                          /\ UNCHANGED <<index, md, fm, web>>

\* node blog-build.js build-all [inputDir] [outputDir]: dirExists is
\* existsSync(inputDir), outputDir the second argument or, when NoArg, the
\* posts directory
BuildAll(outputDirs) ==
    \E dirExists \in BOOLEAN, outputDir \in outputDirs :
        IF ~dirExists
        THEN /\ proc' = Exited("blog-build", "build-all", NoArg, 1,
                               <<"Input directory not found">>, 0, 0)
             /\ UNCHANGED <<fsys, index, md, fm, web>>
        ELSE \E files \in ReadDir(fsys) :
                LET r == ConvertAllFiles(fsys, files, outputDir)
                IN  /\ proc' = [Exited("blog-build", "build-all", NoArg, r.code,
                                       r.log, r.converted, r.failed)
                                EXCEPT !.output = outputDir]
                    /\ fsys' = r.fs
                    /\ UNCHANGED <<index, md, fm, web>>

\* build-all run without an output directory argument
BlogBuildBuildAll == BuildAll({NoArg})

\* build-all run with or without an output directory argument
BlogBuildBuildAllTo == BuildAll({NoArg, OutDir})

\* (for the record of the run) the index that is replaced has an entry for a
\* page that the new one has not
DropsEntry(old, new) ==
    \E i \in 1..Len(old) : \A j \in 1..Len(new) : new[j].url # old[i].url

\* a metadata path inside the directory that is read
MetadataPathInDir(inputDir) == PathJoin(inputDir, MetadataJson)

\* metadataPath = './posts/metadata.json', the default of the parameter that
\* the command line never passes: the file of the posts directory
MetadataPath(inputDir) == MetadataJson

\* node blog-build.js update-metadata [postsDir]: postsDir is the first
\* argument or, when NoArg, the posts directory, whose existence the
\* environment decides. The documents of the model are in the posts
\* directory: OutDir holds pages only, so no document is read from it.
UpdateMetadataIn(postsDirs) ==
    \E postsDir \in postsDirs :
    \E dirExists \in (IF postsDir = NoArg THEN BOOLEAN ELSE {Exists(fsys, postsDir)}) :
        IF ~dirExists
        THEN /\ proc' = Exited("blog-build", "update-metadata", postsDir, 1,
                               <<"Posts directory not found">>, 0, 0)
             /\ UNCHANGED <<fsys, index, md, fm, web>>
        ELSE \E files \in ReadDirOf(fsys, postsDir) :
             \E sorted \in SortedPosts(fsys, files) :
                LET r == UpdateMetadata(fsys, index, files, sorted)
                    path == MetadataPath(postsDir)
                IN  /\ proc' = [Exited("blog-build", "update-metadata", postsDir,
                                       r.code, r.log, 0, 0)
                                EXCEPT !.dropped = DropsEntry(index, r.index)]
                    /\ IF r.exited \/ path = MetadataJson
                       THEN index' = r.index /\ fsys' = fsys
                       ELSE index' = index /\ fsys' = [fsys EXCEPT ![path] = JsonFile]
                    /\ UNCHANGED <<md, fm, web>>

\* update-metadata run without a directory argument
BlogBuildUpdateMetadata == UpdateMetadataIn({NoArg})

\* update-metadata run with or without a directory argument
BlogBuildUpdateMetadataIn == UpdateMetadataIn({NoArg, OutDir})

\* node md-to-html-fixed.js [input] [output]: the value convertFile returns
\* is not used, and the process ends by itself, with status 0
FixedMain ==
    \E input \in ConvertInputs \cup {NoArg}, output \in ConvertOutputs :
        IF input = NoArg
        THEN /\ proc' = Exited("md-to-html-fixed", "convert", NoArg, 1,
                               <<"Usage">>, 0, 0)
             /\ UNCHANGED <<fsys, index, md, fm, web>>
        ELSE LET inputPath == input
                 outputPath == IF output # NoArg THEN output
                               ELSE ReplaceFirstMd(inputPath)
                 r == FixedConvertFile(fsys, inputPath, outputPath)
             IN  /\ proc' = Exited("md-to-html-fixed", "convert", inputPath, 0,
                                   r.log, 0, 0)
                 /\ fsys' = r.fs
                 /\ UNCHANGED <<index, md, fm, web>>

(***************************************************************************)
(* The author edits the posts directory between runs                       *)
(***************************************************************************)

Paths ==
    {AMd, BMd, CMd, HiddenMd, NotesTxt, OutHtml}
    \cup {ReplaceMdSuffix(p) : p \in {AMd, BMd, CMd}}
    \cup {OutDir}
    \cup {PathJoin(OutDir, ReplaceMdSuffix(p)) : p \in {AMd, BMd}}
    \cup {PathJoin(OutDir, MetadataJson)}

EmptyDir == [p \in Paths |-> NoFile]

NoMd == [stage |-> 0, source |-> <<>>, html |-> <<>>]
NoFm == [stage |-> "none", content |-> <<>>, lines |-> <<>>, rest |-> <<>>,
         frontMatter |-> <<>>, body |-> <<>>]

\* the children of the .main element as the page is served, and as
\* renderHomePage of router.js writes them: the search, categories and posts
\* sections without an inline display style, the list of recent posts
\* holding its loading item, and no category page. A section that is not in
\* the document has the display "absent".
Loading == [note |-> "Loading posts...", items |-> <<>>]
HomeMain ==
    [search |-> "", categories |-> "", postsSection |-> "", recent |-> Loading,
     pages |-> <<>>, active |-> <<>>]

\* no page is open
NoWeb ==
    [variant |-> "none", stage |-> "closed", hash |-> <<>>, events |-> 0,
     posts |-> <<>>, bound |-> FALSE, currentRoute |-> <<>>, title |-> <<>>,
     main |-> HomeMain, timers |-> 0, searchSystem |-> FALSE, log |-> <<>>,
     query |-> <<>>, results |-> <<>>]

\* documents of the command-line runs: readable or not
CliDocs ==
    [AMd |-> {NoFile, MdFile(TRUE, <<"T">>, IsoDate(1)), MdFile(FALSE, <<"T">>, IsoDate(1))},
     BMd |-> {NoFile, MdFile(TRUE, <<"T">>, IsoDate(1)), MdFile(FALSE, <<"T">>, IsoDate(1))},
     HiddenMd |-> {NoFile, MdFile(TRUE, <<"T">>, IsoDate(1))},
     NotesTxt |-> {NoFile, MdFile(TRUE, <<"T">>, IsoDate(1))}]

EditCliDoc ==
    \E p \in {AMd, BMd, HiddenMd, NotesTxt} :
    \E f \in (CASE p = AMd -> CliDocs.AMd [] p = BMd -> CliDocs.BMd
                [] p = HiddenMd -> CliDocs.HiddenMd [] OTHER -> CliDocs.NotesTxt) :
        /\ fsys' = [fsys EXCEPT ![p] = f]
        /\ proc' = NoProc
        /\ UNCHANGED <<index, md, fm, web>>

\* documents of the metadata runs: a.md has a date, text that is no date or
\* no date field, a title or none, and is readable or not; b.md and c.md are
\* dated posts
Cryptography == <<"c", "r", "y", "p", "t", "o", "g", "r", "a", "p", "h", "y">>

\* a document with every field of the index in its front matter
FullDoc ==
    MdFileWith(MdFile(TRUE, <<"H", "a", "s", "h">>, IsoDate(1)),
               [category |-> Cryptography,
                excerpt |-> <<"S", "H", "A">>,
                tags |-> ListTags(<<<<"s", "h", "a">>, <<"m", "d", "5">>>>),
                readTime |-> "7 min read",
                author |-> "A"])

\* a document whose tags field is not a list (tags: sha)
ScalarTagsDoc ==
    MdFileWith(MdFile(TRUE, <<"T">>, IsoDate(1)),
               [NoFields EXCEPT !.tags = ScalarTags(<<"s", "h", "a">>)])

MetaDocs ==
    {MdFile(TRUE, <<"T">>, d) : d \in {IsoDate(1), TextDate, NoDate}}
    \cup {MdFile(TRUE, <<>>, IsoDate(1)), MdFile(FALSE, <<"T">>, IsoDate(1))}
    \cup {FullDoc, ScalarTagsDoc}

DatedDocs == {MdFile(TRUE, <<"T">>, IsoDate(d)) : d \in 1..MaxDay}

EditMetaDoc ==
    \/ \E f \in MetaDocs \cup {NoFile} :
        /\ fsys' = [fsys EXCEPT ![AMd] = f]
        /\ proc' = NoProc
        /\ UNCHANGED <<index, md, fm, web>>
    \/ \E p \in {BMd, CMd}, f \in DatedDocs \cup {NoFile} :
        /\ fsys' = [fsys EXCEPT ![p] = f]
        /\ proc' = NoProc
        /\ UNCHANGED <<index, md, fm, web>>

CliInit ==
    /\ fsys = EmptyDir
    /\ index = NoIndex
    /\ proc = NoProc
    /\ md = NoMd
    /\ fm = NoFm
    /\ web = NoWeb

CliNext ==
    \/ EditCliDoc
    \/ BlogBuildNoCommand
    \/ BlogBuildHelp
    \/ BlogBuildUnknown
    \/ BlogBuildConvert
    \/ BlogBuildBuildAll
    \/ BlogBuildUpdateMetadata
    \/ FixedMain

SpecCli == CliInit /\ [][CliNext]_vars

BuildNext ==
    \/ EditCliDoc
    \/ BlogBuildBuildAllTo
    \/ BlogBuildUpdateMetadataIn

SpecBuild == CliInit /\ [][BuildNext]_vars

MetaNext ==
    \/ EditMetaDoc
    \/ BlogBuildUpdateMetadata

SpecMeta == CliInit /\ [][MetaNext]_vars

(***************************************************************************)
(* md-to-html-fixed: the rule table and parseMarkdown                      *)
(***************************************************************************)

NL == "\n"
CR == "\r"

\* LineTerminator of the regular-expression grammar: what `.` does not
\* match, and where ^ and $ match under the m flag
IsLineTerminator(c) == c \in {NL, CR}

\* \s and String.prototype.trim white space
IsSpace(c) == c \in {" ", "\t", NL, CR}

\* \w
WordChars ==
    {"a", "b", "c", "d", "e", "f", "g", "h", "i", "j", "k", "l", "m", "n", "o",
     "p", "q", "r", "s", "t", "u", "v", "w", "x", "y", "z",
     "A", "B", "C", "D", "E", "F", "G", "H", "I", "J", "K", "L", "M", "N", "O",
     "P", "Q", "R", "S", "T", "U", "V", "W", "X", "Y", "Z",
     "0", "1", "2", "3", "4", "5", "6", "7", "8", "9", "_"}

\* the least j in lo..hi that passes the test; hi + 1 (or lo, when that is
\* more) when none does
FirstIndex(lo, hi, Test(_)) ==
    IF lo > hi THEN lo
    ELSE CHOOSE j \in lo..(hi + 1) :
            /\ j = hi + 1 \/ Test(j)
            /\ \A k \in lo..(j - 1) : ~Test(k)

\* the greatest j in lo..hi that passes the test; lo - 1 when none does
LastIndex(lo, hi, Test(_)) ==
    IF lo > hi THEN lo - 1
    ELSE CHOOSE j \in (lo - 1)..hi :
            /\ j = lo - 1 \/ Test(j)
            /\ \A k \in (j + 1)..hi : ~Test(k)

\* the first position from `from` on that holds a line terminator, a
\* character that is not of \w, the character c, or no white space
\* (Len(s) + 1 or more when there is none)
FirstLineTerminator(s, from) ==
    LET Test(j) == IsLineTerminator(s[j]) IN FirstIndex(from, Len(s), Test)

FirstNonWord(s, from) ==
    LET Test(j) == s[j] \notin WordChars IN FirstIndex(from, Len(s), Test)

FirstChar(s, from, c) ==
    LET Test(j) == s[j] = c IN FirstIndex(from, Len(s), Test)

FirstNonSpace(s, from) ==
    LET Test(j) == ~IsSpace(s[j]) IN FirstIndex(from, Len(s), Test)

\* String.prototype.trim
Trim(s) ==
    LET Test(j) == ~IsSpace(s[j])
    IN  SubSeq(s, FirstIndex(1, Len(s), Test), LastIndex(1, Len(s), Test))

\* the texts parts[lo], ..., parts[hi], one after the other
RECURSIVE ConcatRange(_, _, _)
ConcatRange(parts, lo, hi) ==
    IF lo > hi THEN <<>>
    ELSE IF lo = hi THEN parts[lo]
    ELSE LET mid == (lo + hi) \div 2
         IN  ConcatRange(parts, lo, mid) \o ConcatRange(parts, mid + 1, hi)

\* the map of escapeHtml
EscapeCharNoApostrophe(c) ==
    CASE c = "&" -> <<"&", "a", "m", "p", ";">>
      [] c = "<" -> <<"&", "l", "t", ";">>
      [] c = ">" -> <<"&", "g", "t", ";">>
      [] c = "\"" -> <<"&", "q", "u", "o", "t", ";">>
      [] OTHER -> <<c>>

EscapeChar(c) ==
    CASE c = "&" -> <<"&", "a", "m", "p", ";">>
      [] c = "<" -> <<"&", "l", "t", ";">>
      [] c = ">" -> <<"&", "g", "t", ";">>
      [] c = "\"" -> <<"&", "q", "u", "o", "t", ";">>
      [] c = "'" -> <<"&", "#", "3", "9", ";">>
      [] OTHER -> <<c>>

\* escapeHtml(text): every character of the map is replaced, in one pass
EscapeHtml(text) ==
    ConcatRange([i \in 1..Len(text) |-> EscapeChar(text[i])], 1, Len(text))

NoMatch == [ok |-> FALSE, end |-> 0, out |-> <<>>]
Match(end, out) == [ok |-> TRUE, end |-> end, out |-> out]

\* the character U+0060, which a string of this language cannot hold
BT == "BACKTICK"

Fence == <<BT, BT, BT>>
PreCodeOpen == <<"<", "p", "r", "e", ">", "<", "c", "o", "d", "e">>
PreCodeClose == <<"<", "/", "c", "o", "d", "e", ">", "<", "/", "p", "r", "e", ">">>
LanguageClass ==
    <<" ", "c", "l", "a", "s", "s", "=", "\"", "l", "a", "n", "g", "u", "a", "g", "e", "-">>

\* the replacement function of the code-block rule
CodeBlockReplacement(lang, code) ==
    LET language == IF lang # <<>> THEN LanguageClass \o lang \o <<"\"">> ELSE <<>>
    IN  PreCodeOpen \o language \o <<">">> \o EscapeHtml(Trim(code)) \o PreCodeClose

\* \r?\n at position i: the position after it, or 0
AfterNewline(s, i) ==
    IF At(s, i, <<CR, NL>>) THEN i + 2
    ELSE IF At(s, i, <<NL>>) THEN i + 1
    ELSE 0

\* the first e >= from where \r?\n``` matches (0 when there is none)
ClosingFence(s, from) ==
    LET Test(j) == AfterNewline(s, j) # 0 /\ At(s, AfterNewline(s, j), Fence)
        e == FirstIndex(from, Len(s), Test)
    IN  IF e > Len(s) THEN 0 ELSE e

\* /```(\w+)?\r?\n([\s\S]*?)\r?\n```/ tried at position i
MatchCodeBlock(s, i) ==
    IF ~At(s, i, Fence) THEN NoMatch
    ELSE LET langEnd == FirstNonWord(s, i + 3)
             codeStart == AfterNewline(s, langEnd)
         IN  IF codeStart = 0 THEN NoMatch
             ELSE LET codeEnd == ClosingFence(s, codeStart)
                  IN  IF codeEnd = 0 THEN NoMatch
                      ELSE Match(AfterNewline(s, codeEnd) + 2,
                                 CodeBlockReplacement(SubSeq(s, i + 3, langEnd - 1),
                                                      SubSeq(s, codeStart, codeEnd - 1)))

\* ^ under the m flag
AtLineStart(s, i) == i = 1 \/ IsLineTerminator(s[i - 1])

\* $ under the m flag
AtLineEnd(s, i) == i = Len(s) + 1 \/ IsLineTerminator(s[i])

MatchLineToEndOfText(s, i, marker, open, close) ==
    IF ~(AtLineStart(s, i) /\ At(s, i, marker)) THEN NoMatch
    ELSE Match(Len(s), open \o SubSeq(s, i + Len(marker), Len(s)) \o close)

\* /^<marker>(.*$)/m tried at position i, replaced by <open>$1<close>
MatchLine(s, i, marker, open, close) ==
    IF ~(AtLineStart(s, i) /\ At(s, i, marker)) THEN NoMatch
    ELSE LET end == FirstLineTerminator(s, i + Len(marker))
         IN  Match(end - 1, open \o SubSeq(s, i + Len(marker), end - 1) \o close)

\* the first e >= from where delim matches, with no line terminator before
\* it (0 when there is none)
ClosingDelimiter(s, from, delim) ==
    LET Test(j) == At(s, j, delim) \/ IsLineTerminator(s[j])
        e == FirstIndex(from, Len(s), Test)
    IN  IF e <= Len(s) /\ At(s, e, delim) THEN e ELSE 0

\* /<delim>(.*?)<delim>/ tried at position i, replaced by <open>$1<close>
MatchSpan(s, i, delim, open, close) ==
    IF ~At(s, i, delim) THEN NoMatch
    ELSE LET e == ClosingDelimiter(s, i + Len(delim), delim)
         IN  IF e = 0 THEN NoMatch
             ELSE Match(e + Len(delim) - 1,
                        open \o SubSeq(s, i + Len(delim), e - 1) \o close)

Tag(name) == <<"<">> \o name \o <<">">>
EndTag(name) == <<"<", "/">> \o name \o <<">">>

\* /`([^`]+)`/ tried at position i
MatchInlineCode(s, i) ==
    IF ~At(s, i, <<BT>>) THEN NoMatch
    ELSE LET e == FirstChar(s, i + 1, BT)
         IN  IF e > Len(s) \/ e = i + 1 THEN NoMatch
             ELSE Match(e, Tag(<<"c", "o", "d", "e">>) \o SubSeq(s, i + 1, e - 1)
                           \o EndTag(<<"c", "o", "d", "e">>))

\* \]\(([^)]+)\) after a bracketed text that starts at textStart and is
\* closed at position close: the match, given the replacement of $1 and $2
MatchTarget(s, textStart, close, out(_, _)) ==
    IF ~At(s, close, <<"]", "(">>) THEN NoMatch
    ELSE LET e == FirstChar(s, close + 2, ")")
         IN  IF e > Len(s) \/ e = close + 2 THEN NoMatch
             ELSE Match(e, out(SubSeq(s, textStart, close - 1),
                               SubSeq(s, close + 2, e - 1)))

\* the replacement of the link rule: an a element, href $2, content $1
LinkReplacement(text, target) ==
    <<"<", "a", " ", "h", "r", "e", "f", "=", "\"">> \o target \o <<"\"", ">">>
    \o text \o EndTag(<<"a">>)

\* the replacement of the image rule: an img element, src $2, alt $1
ImageReplacement(alt, target) ==
    <<"<", "i", "m", "g", " ", "s", "r", "c", "=", "\"">> \o target
    \o <<"\"", " ", "a", "l", "t", "=", "\"">> \o alt \o <<"\"", ">">>

\* /\[([^\]]+)\]\(([^)]+)\)/ tried at position i
MatchLink(s, i) ==
    IF ~At(s, i, <<"[">>) THEN NoMatch
    ELSE LET close == FirstChar(s, i + 1, "]")
         IN  IF close = i + 1 THEN NoMatch
             ELSE MatchTarget(s, i + 1, close, LinkReplacement)

\* /!\[([^\]]*)\]\(([^)]+)\)/ tried at position i
MatchImage(s, i) ==
    IF ~At(s, i, <<"!", "[">>) THEN NoMatch
    ELSE MatchTarget(s, i + 2, FirstChar(s, i + 2, "]"), ImageReplacement)

\* /^---$/m tried at position i
MatchRule(s, i) ==
    IF AtLineStart(s, i) /\ At(s, i, <<"-", "-", "-">>) /\ AtLineEnd(s, i + 3)
    THEN Match(i + 2, <<"<", "h", "r", ">">>)
    ELSE NoMatch

NumRules == 14

MatchAtBoldFirst(k, s, i) ==
    CASE k = 1 -> MatchCodeBlock(s, i)
      [] k = 2 -> MatchLine(s, i, <<"#", "#", "#", "#", " ">>, Tag(<<"h", "4">>), EndTag(<<"h", "4">>))
      [] k = 3 -> MatchLine(s, i, <<"#", "#", "#", " ">>, Tag(<<"h", "3">>), EndTag(<<"h", "3">>))
      [] k = 4 -> MatchLine(s, i, <<"#", "#", " ">>, Tag(<<"h", "2">>), EndTag(<<"h", "2">>))
      [] k = 5 -> MatchLine(s, i, <<"#", " ">>, Tag(<<"h", "1">>), EndTag(<<"h", "1">>))
      [] k = 7 -> MatchSpan(s, i, <<"*", "*", "*">>,
                            Tag(<<"s", "t", "r", "o", "n", "g">>) \o Tag(<<"e", "m">>),
                            EndTag(<<"e", "m">>) \o EndTag(<<"s", "t", "r", "o", "n", "g">>))
      [] k = 6 -> MatchSpan(s, i, <<"*", "*">>, Tag(<<"s", "t", "r", "o", "n", "g">>),
                            EndTag(<<"s", "t", "r", "o", "n", "g">>))
      [] k = 8 -> MatchSpan(s, i, <<"*">>, Tag(<<"e", "m">>), EndTag(<<"e", "m">>))
      [] k = 9 -> MatchInlineCode(s, i)
      [] k = 10 -> MatchLink(s, i)
      [] k = 11 -> MatchImage(s, i)
      [] k = 12 -> MatchRule(s, i)
      [] k = 13 -> MatchLine(s, i, <<"-", " ">>, Tag(<<"l", "i">>), EndTag(<<"l", "i">>))
      [] k = 14 -> MatchLine(s, i, <<">", " ">>,
                             Tag(<<"b", "l", "o", "c", "k", "q", "u", "o", "t", "e">>),
                             EndTag(<<"b", "l", "o", "c", "k", "q", "u", "o", "t", "e">>))

\* this.rules[k - 1].pattern tried at position i of s, with the text its
\* replacement gives
MatchAt(k, s, i) ==
    CASE k = 1 -> MatchCodeBlock(s, i)
      [] k = 2 -> MatchLine(s, i, <<"#", "#", "#", "#", " ">>, Tag(<<"h", "4">>), EndTag(<<"h", "4">>))
      [] k = 3 -> MatchLine(s, i, <<"#", "#", "#", " ">>, Tag(<<"h", "3">>), EndTag(<<"h", "3">>))
      [] k = 4 -> MatchLine(s, i, <<"#", "#", " ">>, Tag(<<"h", "2">>), EndTag(<<"h", "2">>))
      [] k = 5 -> MatchLine(s, i, <<"#", " ">>, Tag(<<"h", "1">>), EndTag(<<"h", "1">>))
      [] k = 6 -> MatchSpan(s, i, <<"*", "*", "*">>,
                            Tag(<<"s", "t", "r", "o", "n", "g">>) \o Tag(<<"e", "m">>),
                            EndTag(<<"e", "m">>) \o EndTag(<<"s", "t", "r", "o", "n", "g">>))
      [] k = 7 -> MatchSpan(s, i, <<"*", "*">>, Tag(<<"s", "t", "r", "o", "n", "g">>),
                            EndTag(<<"s", "t", "r", "o", "n", "g">>))
      [] k = 8 -> MatchSpan(s, i, <<"*">>, Tag(<<"e", "m">>), EndTag(<<"e", "m">>))
      [] k = 9 -> MatchInlineCode(s, i)
      [] k = 10 -> MatchLink(s, i)
      [] k = 11 -> MatchImage(s, i)
      [] k = 12 -> MatchRule(s, i)
      [] k = 13 -> MatchLine(s, i, <<"-", " ">>, Tag(<<"l", "i">>), EndTag(<<"l", "i">>))
      [] k = 14 -> MatchLine(s, i, <<">", " ">>,
                             Tag(<<"b", "l", "o", "c", "k", "q", "u", "o", "t", "e">>),
                             EndTag(<<"b", "l", "o", "c", "k", "q", "u", "o", "t", "e">>))

\* html.replace(rule.pattern, rule.replacement) with the g flag, from
\* position i on: leftmost matches, each search resuming after the last match
RECURSIVE ReplaceFrom(_, _, _)
ReplaceFrom(k, s, i) ==
    LET Test(j) == MatchAt(k, s, j).ok
        start == FirstIndex(i, Len(s), Test)
    IN  IF start > Len(s) THEN SubSeq(s, i, Len(s))
        ELSE LET m == MatchAt(k, s, start)
             IN  SubSeq(s, i, start - 1) \o m.out \o ReplaceFrom(k, s, m.end + 1)

ApplyRuleTo(k, html) == ReplaceFrom(k, html, 1)

\* \r?\n\r?\n at position i: the position after it, or 0
AfterBlankLine(s, i) ==
    IF AfterNewline(s, i) = 0 THEN 0 ELSE AfterNewline(s, AfterNewline(s, i))

\* html.split(/\r?\n\r?\n/), from position i on
RECURSIVE SplitFrom(_, _)
SplitFrom(s, i) ==
    LET Test(j) == AfterBlankLine(s, j) # 0
        sep == FirstIndex(i, Len(s), Test)
    IN  IF sep > Len(s) THEN <<SubSeq(s, i, Len(s))>>
        ELSE <<SubSeq(s, i, sep - 1)>> \o SplitFrom(s, AfterBlankLine(s, sep))

SplitParagraphs(html) == SplitFrom(html, 1)

ListIndent == 24
ParagraphIndent == 20
Spaces(n) == [i \in 1..n |-> " "]

UlOpen == <<"<", "u", "l", ">">>
UlClose == <<"<", "/", "u", "l", ">">>

\* the function mapped over the paragraphs
WrapParagraph(para) ==
    LET trimmed == Trim(para)
    IN  IF trimmed = <<>> THEN <<>>
        ELSE IF \/ StartsWith(trimmed, <<"<", "h">>)
                \/ StartsWith(trimmed, <<"<", "p", "r", "e">>)
                \/ StartsWith(trimmed, <<"<", "u", "l">>)
                \/ StartsWith(trimmed, <<"<", "o", "l">>)
                \/ StartsWith(trimmed, <<"<", "b", "l", "o", "c", "k", "q", "u", "o", "t", "e">>)
                \/ StartsWith(trimmed, <<"<", "h", "r">>)
                \/ StartsWith(trimmed, <<"<", "l", "i", ">">>)
             THEN trimmed
        ELSE IF Includes(trimmed, <<"<", "l", "i", ">">>)
             THEN UlOpen \o <<NL>> \o Spaces(ListIndent) \o trimmed
                  \o <<NL>> \o Spaces(ParagraphIndent) \o UlClose
        ELSE <<"<", "p", ">">> \o trimmed \o <<"<", "/", "p", ">">>

\* paragraphs.map(...).filter(para => para).join('\n\n' + 20 spaces)
RECURSIVE JoinParagraphs(_, _)
JoinParagraphs(paras, first) ==
    IF paras = <<>> THEN <<>>
    ELSE LET para == WrapParagraph(Head(paras))
         IN  IF para = <<>> THEN JoinParagraphs(Tail(paras), first)
             ELSE (IF first THEN <<>> ELSE <<NL, NL>> \o Spaces(ParagraphIndent))
                  \o para \o JoinParagraphs(Tail(paras), FALSE)

ConvertParagraphs(html) == JoinParagraphs(SplitParagraphs(html), TRUE)

\* html.replace(/<\/ul>\s*<ul>/g, ''), from position i on
RECURSIVE MergeListsFrom(_, _)
MergeListsFrom(s, i) ==
    LET Test(j) == At(s, j, UlClose)
                   /\ At(s, FirstNonSpace(s, j + Len(UlClose)), UlOpen)
        start == FirstIndex(i, Len(s), Test)
    IN  IF start > Len(s) THEN SubSeq(s, i, Len(s))
        ELSE SubSeq(s, i, start - 1)
             \o MergeListsFrom(s, FirstNonSpace(s, start + Len(UlClose)) + Len(UlOpen))

MergeLists(html) == MergeListsFrom(html, 1)

(***************************************************************************)
(* parseMarkdown(markdown), one step for each rule of the table, one for   *)
(* the paragraphs and one for the lists. md.stage counts the steps done.   *)
(***************************************************************************)

Wrapped == NumRules + 1
Returned == NumRules + 2

StartParse(markdown) == [stage |-> 0, source |-> markdown, html |-> markdown]

\* if (!markdown) return ''
ReturnEmpty ==
    /\ md.stage = 0
    /\ md.source = <<>>
    /\ md' = [md EXCEPT !.stage = Returned, !.html = <<>>]
    /\ UNCHANGED <<fsys, index, proc, fm, web>>

\* one turn of this.rules.forEach
ApplyRule ==
    /\ md.stage < NumRules
    /\ md.source # <<>>
    /\ md' = [md EXCEPT !.stage = md.stage + 1,
                        !.html = ApplyRuleTo(md.stage + 1, md.html)]
    /\ UNCHANGED <<fsys, index, proc, fm, web>>

WrapParagraphs ==
    /\ md.stage = NumRules
    /\ md' = [md EXCEPT !.stage = Wrapped, !.html = ConvertParagraphs(md.html)]
    /\ UNCHANGED <<fsys, index, proc, fm, web>>

FixNestedLists ==
    /\ md.stage = Wrapped
    /\ md' = [md EXCEPT !.stage = Returned, !.html = MergeLists(md.html)]
    /\ UNCHANGED <<fsys, index, proc, fm, web>>

MdNext ==
    \/ ReturnEmpty
    \/ ApplyRule
    \/ WrapParagraphs
    \/ FixNestedLists

(***************************************************************************)
(* Markdown bodies given to parseMarkdown                                  *)
(***************************************************************************)

MaxCodeParts == 2       \* parts of the content of a fenced code block
MaxLines == 2           \* lines of a body

RECURSIVE Flatten(_)
Flatten(parts) ==
    IF parts = <<>> THEN <<>> ELSE Head(parts) \o Flatten(Tail(parts))

\* the sequences of at most n elements of S
RECURSIVE SeqsUpTo(_, _)
SeqsUpTo(S, n) ==
    IF n = 0 THEN {<<>>}
    ELSE LET shorter == SeqsUpTo(S, n - 1)
         IN  shorter \cup {Append(q, x) : q \in shorter, x \in S}

\* what the content of a code block is made of: text, white space, the
\* characters of escapeHtml, an entity, and lines that look like Markdown
CodeParts ==
    {<<"x">>,
     <<NL>>,
     <<" ">>,
     <<"<">>,
     <<">">>,
     <<"&">>,
     <<"\"">>,
     <<"'">>,
     <<"*", "x", "*">>,
     <<"#", " ", "x">>,
     <<"-", " ", "x">>,
     <<"&", "l", "t", ";">>}

CodeContents == {Flatten(parts) : parts \in SeqsUpTo(CodeParts, MaxCodeParts)}

\* a fenced code block, alone or between two paragraphs, with a language
\* tag or none
FencedBodies ==
    {around[1] \o Fence \o lang \o <<NL>> \o code \o <<NL>> \o Fence \o around[2] :
        around \in {<<<<>>, <<>>>>, <<<<"x", NL, NL>>, <<NL, NL, "x">>>>},
        lang \in {<<>>, <<"j", "s">>},
        code \in CodeContents}

FenceInit ==
    /\ fsys = EmptyDir
    /\ index = NoIndex
    /\ proc = NoProc
    /\ \E markdown \in FencedBodies \cup {<<>>} : md = StartParse(markdown)
    /\ fm = NoFm
    /\ web = NoWeb

SpecFence == FenceInit /\ [][MdNext]_vars

\* the lines a body is made of: one for each construct of the rule table,
\* plain text, the empty line, and text that holds a list-item tag
BodyLines ==
    {<<>>,
     <<"x">>,
     <<"#", " ", "T">>,
     <<"#", "#", " ", "T">>,
     <<"#", "#", "#", " ", "R">>,
     <<"#", "#", "#", "#", " ", "S">>,
     <<"-", " ", "a">>,
     <<">", " ", "q">>,
     <<"-", "-", "-">>,
     <<"*", "i", "*">>,
     <<"*", "*", "b", "*", "*">>,
     <<"*", "*", "*", "x", "*", "*", "*">>,
     <<BT, "c", BT>>,
     <<"[", "t", "]", "(", "u", ")">>,
     <<"!", "[", "a", "]", "(", "u", ")">>,
     <<"!", "[", "]", "(", "u", ")">>,
     <<"x", " ", "<", "l", "i", ">", "z">>}

RECURSIVE JoinLines(_)
JoinLines(lines) ==
    IF lines = <<>> THEN <<>>
    ELSE IF Len(lines) = 1 THEN lines[1]
    ELSE lines[1] \o <<NL>> \o JoinLines(Tail(lines))

LineBodies == {JoinLines(lines) : lines \in SeqsUpTo(BodyLines, MaxLines)}

LinesInit ==
    /\ fsys = EmptyDir
    /\ index = NoIndex
    /\ proc = NoProc
    /\ \E markdown \in LineBodies : md = StartParse(markdown)
    /\ fm = NoFm
    /\ web = NoWeb

SpecLines == LinesInit /\ [][MdNext]_vars

(***************************************************************************)
(* Claims about the command lines                                          *)
(***************************************************************************)

Logged(msg) == \E i \in 1..Len(proc.log) : proc.log[i] = msg

\* the documents build-all and update-metadata work on
BatchDocs == {p \in DOMAIN fsys : fsys[p] # NoFile /\ IsMarkdownFile(p)}
FailingDocs == {p \in BatchDocs : ~fsys[p].readable}

\* a build-all run that found documents to convert
BatchRan == proc.tool = "blog-build" /\ proc.cmd = "build-all" /\ Logged("Found")

\* C1: in batch mode a document whose conversion fails is caught and counted,
\* every other document is still converted, the summary is printed with the
\* numbers of successes and failures, and the exit status is 0.
C1_BatchToleratesFailure ==
    (BatchRan /\ FailingDocs # {}) =>
        /\ proc.exit = 0
        /\ Logged("Conversion Summary")
        /\ proc.converted = Cardinality(BatchDocs \ FailingDocs)
        /\ proc.failed = Cardinality(FailingDocs)
        /\ \A p \in BatchDocs \ FailingDocs : Exists(fsys, ReplaceMdSuffix(p))

\* the three outcomes of a blog-build run, read from what it printed
Outcome ==
    IF proc.tool # "blog-build" THEN "none"
    ELSE IF Logged("Input file not found") \/ Logged("Input directory not found")
            \/ Logged("Posts directory not found") THEN "missing input"
    ELSE IF Logged("Error converting") THEN "conversion failure"
    ELSE IF proc.cmd = "convert" /\ Logged("Converted") THEN "success"
    ELSE IF proc.cmd = "build-all"
            /\ (Logged("Conversion Summary") \/ Logged("No markdown files found"))
         THEN "success"
    ELSE IF proc.cmd = "update-metadata" /\ Logged("Updated metadata.json")
         THEN "success"
    ELSE "none"

ThreeOutcomes == {"missing input", "conversion failure", "success"}

\* C2 as stated: two runs of the tool that end with different outcomes among
\* missing input, conversion failure and success end with different exit
\* statuses.
C2_DistinctExitCodes ==
    [][(/\ Outcome \in ThreeOutcomes
        /\ Outcome' \in ThreeOutcomes
        /\ Outcome # Outcome') => proc.exit # proc'.exit]_vars

\* C2: blog-build ends with status 0 on success and with status 1 both on a
\* missing input path or directory and on a conversion failure.
C2_TwoExitCodes ==
    /\ Outcome = "success" => proc.exit = 0
    /\ Outcome = "missing input" => proc.exit = 1
    /\ Outcome = "conversion failure" => proc.exit = 1

C2_Witness ==
    /\ Outcome = "conversion failure"
    /\ proc.cmd = "build-all"
    /\ proc.exit = 1

\* a single-file conversion was asked for, with an input path
SingleFileRun == proc.cmd = "convert" /\ proc.input # NoArg

\* C3: each single-file entry point exits with status 0 exactly when the
\* input path exists and convertFile read, transformed and wrote it, and with
\* a non-zero status when the path does not exist or convertFile fails.
C3_ExitZeroIffConverted ==
    SingleFileRun =>
        (proc.exit = 0 <=> (Exists(fsys, proc.input) /\ Logged("Converted")))

\* C4 as stated: help and an invocation with no arguments both print the
\* usage and end with a non-zero status.
C4_HelpExitsNonZero ==
    (proc.tool = "blog-build" /\ proc.cmd \in {"", "help"}) =>
        (Logged("Usage") /\ proc.exit # 0)

\* C4: help and an invocation with no arguments both print the usage; with
\* no arguments the status is 1, with help it is 0.
C4_HelpExitsZero ==
    (proc.tool = "blog-build" /\ proc.cmd \in {"", "help"}) =>
        /\ Logged("Usage")
        /\ proc.cmd = "" => proc.exit = 1
        /\ proc.cmd = "help" => proc.exit = 0

C4_Witness ==
    /\ proc.tool = "blog-build"
    /\ proc.cmd = "help"
    /\ Logged("Usage")

(***************************************************************************)
(* Claims about the metadata index                                         *)
(***************************************************************************)

\* an update-metadata run that wrote the index
IndexWritten ==
    /\ proc.tool = "blog-build"
    /\ proc.cmd = "update-metadata"
    /\ Logged("Updated metadata.json")

IndexUrls == {index[i].url : i \in 1..Len(index)}

\* the documents of the directory that are to have an entry
IndexedDocs ==
    {p \in BatchDocs : fsys[p].title # <<>> /\ fsys[p].date # NoDate}

\* C5: the index a run writes holds entries only for documents that are in
\* the directory at that run, one for each document with a title and a date,
\* whatever the index held before.
C5_IndexRebuilt ==
    IndexWritten =>
        /\ \A i \in 1..Len(index) :
              \E p \in BatchDocs :
                  /\ index[i].url = PostsUrl \o ReplaceMdSuffix(p)
                  /\ index[i].title = fsys[p].title
                  /\ index[i].date = fsys[p].date
        /\ Len(index) = Cardinality(IndexedDocs)
        /\ Cardinality(IndexUrls) = Len(index)

\* a run replaced an index that had an entry for a.md, removed since, by an
\* index of one entry
C5_Witness ==
    /\ IndexWritten
    /\ proc.dropped
    /\ Len(index) = 1
    /\ ~Exists(fsys, AMd)

\* the entries carry calendar dates, no two the same
DistinctDates ==
    /\ \A i \in 1..Len(index) : index[i].date.kind = "iso"
    /\ \A i, j \in 1..Len(index) : i # j => index[i].date.day # index[j].date.day

\* C6: when the documents carry pairwise distinct dates, the posts array
\* that is written is sorted strictly descending by date.
C6_SortedDescending ==
    (IndexWritten /\ DistinctDates) =>
        \A i \in 1..(Len(index) - 1) : index[i].date.day > index[i + 1].date.day

C6_Witness ==
    /\ IndexWritten
    /\ DistinctDates
    /\ Len(index) = 3
    /\ index[1].url = PostsUrl \o ReplaceMdSuffix(CMd)
    /\ index[2].url = PostsUrl \o ReplaceMdSuffix(BMd)
    /\ index[3].url = PostsUrl \o ReplaceMdSuffix(AMd)

(***************************************************************************)
(* Claims about the Markdown pipeline                                      *)
(***************************************************************************)

RulesDone == md.source # <<>> /\ md.stage \in 1..NumRules

\* the first pre/code element of html, from its opening tag to its closing
\* tag (empty when there is none)
CodeElement(html) ==
    LET IsOpen(j) == At(html, j, PreCodeOpen)
        open == FirstIndex(1, Len(html), IsOpen)
        IsClose(j) == At(html, j, PreCodeClose)
        close == FirstIndex(open, Len(html), IsClose)
    IN  IF close > Len(html) THEN <<>>
        ELSE SubSeq(html, open, close + Len(PreCodeClose) - 1)

\* C7: once the first rule has produced the pre/code element of a fenced
\* code block, no later rule of the table changes that element.
C7_CodeNotTransformedAgain ==
    [][(RulesDone /\ md.stage < NumRules)
            => CodeElement(md'.html) = CodeElement(md.html)]_vars

\* the parts of a body that holds one fenced code block: the text before
\* the opening fence, the language tag, the code, the text after the
\* closing fence
FenceParts(source) ==
    LET IsFence(j) == At(source, j, Fence)
        open == FirstIndex(1, Len(source), IsFence)
        close == LastIndex(1, Len(source), IsFence)
        IsNewline(j) == source[j] = NL
        eol == FirstIndex(open, Len(source), IsNewline)
    IN  [before |-> SubSeq(source, 1, open - 1),
         lang |-> SubSeq(source, open + Len(Fence), eol - 1),
         code |-> SubSeq(source, eol + 1, close - 2),
         after |-> SubSeq(source, close + Len(Fence), Len(source))]

WhiteSpace == {" ", "\t", NL, CR}

\* t is text without the white space at its two ends
IsTrimmed(t, text) ==
    \E a \in 1..(Len(text) + 1), b \in 0..Len(text) :
        /\ t = SubSeq(text, a, b)
        /\ \A i \in 1..Len(text) : (i < a \/ i > b) => text[i] \in WhiteSpace
        /\ t # <<>> => t[1] \notin WhiteSpace /\ t[Len(t)] \notin WhiteSpace

\* the character reference that stands for c in HTML text
Entity(c) ==
    CASE c = "&" -> <<"&", "a", "m", "p", ";">>
      [] c = "<" -> <<"&", "l", "t", ";">>
      [] c = ">" -> <<"&", "g", "t", ";">>
      [] c = "\"" -> <<"&", "q", "u", "o", "t", ";">>
      [] c = "'" -> <<"&", "#", "3", "9", ";">>

\* t with each of & < > " ' replaced, once, by its character reference
EscapedOnce(t) ==
    ConcatRange([i \in 1..Len(t) |->
                    IF t[i] \in {"&", "<", ">", "\"", "'"} THEN Entity(t[i])
                    ELSE <<t[i]>>], 1, Len(t))

ClassAttribute(lang) ==
    IF lang = <<>> THEN <<>>
    ELSE <<" ", "c", "l", "a", "s", "s", "=", "\"", "l", "a", "n", "g", "u", "a", "g", "e", "-">> \o lang \o <<"\"">>

\* C8: after the first rule a fenced code block has become
\* <pre><code>...</code></pre>, whose content is the code without the white
\* space at its ends and with each of & < > " ' escaped once; the code tag
\* has class="language-<tag>" when a tag follows the opening fence and no
\* class attribute when none does.
C8_CodeBlockElement ==
    md.stage = 1 =>
        LET parts == FenceParts(md.source)
        IN  \E a \in 1..(Len(parts.code) + 1), b \in 0..Len(parts.code) :
                /\ IsTrimmed(SubSeq(parts.code, a, b), parts.code)
                /\ md.html = parts.before
                             \o <<"<", "p", "r", "e", ">", "<", "c", "o", "d", "e">>
                             \o ClassAttribute(parts.lang)
                             \o <<">">>
                             \o EscapedOnce(SubSeq(parts.code, a, b))
                             \o <<"<", "/", "c", "o", "d", "e", ">", "<", "/", "p", "r", "e", ">">>
                             \o parts.after

\* a block tagged js whose code is a space and the reference of an angle
\* bracket
C8_Witness ==
    /\ md.stage = 1
    /\ md.source = <<BT, BT, BT, "j", "s", NL, " ", "&", "l", "t", ";", NL, BT, BT, BT>>
    /\ md.html = <<"<", "p", "r", "e", ">", "<", "c", "o", "d", "e", " ", "c", "l", "a", "s", "s", "=", "\"", "l", "a", "n", "g", "u", "a", "g", "e", "-", "j", "s", "\"", ">", "&", "a", "m", "p", ";", "l", "t", ";", "<", "/", "c", "o", "d", "e", ">", "<", "/", "p", "r", "e", ">">>

ImageConstruct(alt, target) ==
    <<"!", "[">> \o alt \o <<"]", "(">> \o target \o <<")">>

ImgElement(alt, target) ==
    <<"<", "i", "m", "g", " ", "s", "r", "c", "=", "\"">> \o target \o <<"\"", " ", "a", "l", "t", "=", "\"">> \o alt \o <<"\"", ">">>

\* C9: every image construct ![alt](target) of the body, its alt text empty
\* or not, is in the result as an img element with that src and that alt,
\* and the result never holds an anchor element behind a literal !.
C9_ImagesBecomeImg ==
    md.stage = Returned =>
        /\ \A alt \in {<<>>, <<"a">>} :
              Includes(md.source, ImageConstruct(alt, <<"u">>))
                  => Includes(md.html, ImgElement(alt, <<"u">>))
        /\ ~Includes(md.html, <<"!", "<", "a", " ">>)

\* every line of the body is a list item line
OnlyListLines(source) ==
    /\ StartsWith(source, <<"-", " ">>)
    /\ \A i \in 1..Len(source) : source[i] = NL => At(source, i + 1, <<"-", " ">>)

\* C10: a body whose lines are all list item lines ends up, after the
\* paragraph post-processing, as list items inside one ul element.
C10_ListGroupInUl ==
    (md.stage = Returned /\ OnlyListLines(md.source)) =>
        /\ StartsWith(md.html, <<"<", "u", "l", ">">>)
        /\ EndsWith(md.html, <<"<", "/", "u", "l", ">">>)
        /\ Includes(md.html, <<"<", "l", "i", ">", "a", "<", "/", "l", "i", ">">>)

\* the opening tags the inline rules (emphasis, inline code, links, images)
\* write
InlineOpenTags ==
    {<<"<", "e", "m", ">">>,
     <<"<", "s", "t", "r", "o", "n", "g", ">">>,
     <<"<", "c", "o", "d", "e", ">">>,
     <<"<", "a", " ", "h", "r", "e", "f", "=">>,
     <<"<", "i", "m", "g", " ", "s", "r", "c", "=">>}

\* what starts a line that a block-level rule (headers, horizontal rule,
\* list items, blockquotes) has still to convert
BlockMarkers ==
    {<<"#", " ">>,
     <<"#", "#", " ">>,
     <<"#", "#", "#", " ">>,
     <<"#", "#", "#", "#", " ">>,
     <<"-", " ">>,
     <<">", " ">>,
     <<"-", "-", "-">>}

HoldsInlineElement(html) == \E tag \in InlineOpenTags : Includes(html, tag)

HoldsBlockMarker(html) ==
    \E i \in 1..Len(html), marker \in BlockMarkers :
        /\ i = 1 \/ html[i - 1] = NL
        /\ At(html, i, marker)

\* C11: the block-level rules all run before the inline rules: while the
\* table is folded over a body, the text never holds an element written by
\* an inline rule together with a line a block-level rule has yet to convert.
C11_BlockBeforeInline ==
    RulesDone => ~(HoldsInlineElement(md.html) /\ HoldsBlockMarker(md.html))

(***************************************************************************)
(* parseFrontMatter (md-to-html-fixed.js and blog-build.js have the same   *)
(* text). A record is the sequence of its <<key, value>> entries in        *)
(* insertion order; a value is a string or an array of strings.            *)
(***************************************************************************)

Dashes == <<"-", "-", "-">>
Quote == "\""

StringValue(text) == [list |-> FALSE, text |-> text, items |-> <<>>]
ArrayValue(items) == [list |-> TRUE, text |-> <<>>, items |-> items]

NoFrontMatter == [ok |-> FALSE, block |-> <<>>, rest |-> <<>>]

\* content.match(/^---\r?\n([\s\S]*?)\r?\n---\r?\n([\s\S]*)$/): the two
\* groups, the first one the shortest that lets the rest match
FrontMatterMatch(content) ==
    LET start == AfterNewline(content, Len(Dashes) + 1)
        Closes(j) ==
            LET dashes == AfterNewline(content, j)
            IN  /\ dashes # 0
                /\ At(content, dashes, Dashes)
                /\ AfterNewline(content, dashes + Len(Dashes)) # 0
        close == FirstIndex(start, Len(content), Closes)
    IN  IF ~At(content, 1, Dashes) \/ start = 0 \/ close > Len(content)
        THEN NoFrontMatter
        ELSE [ok |-> TRUE,
              block |-> SubSeq(content, start, close - 1),
              rest |-> SubSeq(content,
                              AfterNewline(content,
                                           AfterNewline(content, close) + Len(Dashes)),
                              Len(content))]

\* match[1].split(/\r?\n/), from position i on
RECURSIVE SplitLinesFrom(_, _)
SplitLinesFrom(s, i) ==
    LET Test(j) == AfterNewline(s, j) # 0
        sep == FirstIndex(i, Len(s), Test)
    IN  IF sep > Len(s) THEN <<SubSeq(s, i, Len(s))>>
        ELSE <<SubSeq(s, i, sep - 1)>> \o SplitLinesFrom(s, AfterNewline(s, sep))

SplitLines(block) == SplitLinesFrom(block, 1)

\* value.split(','), from position i on
RECURSIVE SplitCommasFrom(_, _)
SplitCommasFrom(s, i) ==
    LET comma == FirstChar(s, i, ",")
    IN  IF comma > Len(s) THEN <<SubSeq(s, i, Len(s))>>
        ELSE <<SubSeq(s, i, comma - 1)>> \o SplitCommasFrom(s, comma + 1)

\* value.slice(1, -1)
Slice(value) == SubSeq(value, 2, Len(value) - 1)

CleanItemKeepingQuotes(item) ==
    LET Kept(c) == c \notin {"[", "]"}
    IN  SelectSeq(Trim(item), Kept)

\* item.trim().replace(/["\[\]]/g, '')
CleanItem(item) ==
    LET Kept(c) == c \notin {Quote, "[", "]"}
    IN  SelectSeq(Trim(item), Kept)

\* the two tests on the value of a line, one after the other
NormalizeValue(raw) ==
    LET value == IF StartsWith(raw, <<Quote>>) /\ EndsWith(raw, <<Quote>>)
                 THEN Slice(raw)
                 ELSE raw
    IN  IF StartsWith(value, <<"[">>) /\ EndsWith(value, <<"]">>)
        THEN LET pieces == SplitCommasFrom(Slice(value), 1)
             IN  ArrayValue([i \in 1..Len(pieces) |-> CleanItem(pieces[i])])
        ELSE StringValue(value)

HasKey(frontMatter, key) == \E i \in 1..Len(frontMatter) : frontMatter[i][1] = key

SetKeyKeepingFirst(frontMatter, key, value) ==
    IF HasKey(frontMatter, key) THEN frontMatter
    ELSE Append(frontMatter, <<key, value>>)

\* frontMatter[key] = value
SetKey(frontMatter, key, value) ==
    IF HasKey(frontMatter, key)
    THEN [i \in 1..Len(frontMatter) |->
             IF frontMatter[i][1] = key THEN <<key, value>> ELSE frontMatter[i]]
    ELSE Append(frontMatter, <<key, value>>)

\* the callback of frontMatterLines.forEach
ParseLine(frontMatter, line) ==
    LET colonIndex == FirstChar(line, 1, ":")
    IN  IF colonIndex > Len(line) THEN frontMatter
        ELSE SetKey(frontMatter,
                    Trim(SubSeq(line, 1, colonIndex - 1)),
                    NormalizeValue(Trim(SubSeq(line, colonIndex + 1, Len(line)))))

RECURSIVE ParseLines(_, _)
ParseLines(frontMatter, lines) ==
    IF lines = <<>> THEN frontMatter
    ELSE ParseLines(ParseLine(frontMatter, Head(lines)), Tail(lines))

\* parseFrontMatter(content) as a whole
ParseFrontMatter(content) ==
    LET match == FrontMatterMatch(content)
    IN  IF ~match.ok THEN [frontMatter |-> <<>>, content |-> content]
        ELSE [frontMatter |-> ParseLines(<<>>, SplitLines(match.block)),
              content |-> Trim(match.rest)]

(***************************************************************************)
(* One call of parseFrontMatter, a step for the match, one for each line   *)
(* of the block and one for the return                                     *)
(***************************************************************************)

StartFrontMatter(content) ==
    [stage |-> "called", content |-> content, lines |-> <<>>, rest |-> <<>>,
     frontMatter |-> <<>>, body |-> <<>>]

ReturnNoFrontMatterTrimmed ==
    /\ fm.stage = "called"
    /\ ~FrontMatterMatch(fm.content).ok
    /\ fm' = [fm EXCEPT !.stage = "returned", !.body = Trim(fm.content)]
    /\ UNCHANGED <<fsys, index, proc, md, web>>

\* if (!match) return { frontMatter: {}, content }
ReturnNoFrontMatter ==
    /\ fm.stage = "called"
    /\ ~FrontMatterMatch(fm.content).ok
    /\ fm' = [fm EXCEPT !.stage = "returned", !.body = fm.content]
    /\ UNCHANGED <<fsys, index, proc, md, web>>

SplitBlock ==
    /\ fm.stage = "called"
    /\ FrontMatterMatch(fm.content).ok
    /\ fm' = [fm EXCEPT !.stage = "lines",
                        !.lines = SplitLines(FrontMatterMatch(fm.content).block),
                        !.rest = FrontMatterMatch(fm.content).rest]
    /\ UNCHANGED <<fsys, index, proc, md, web>>

NextLine ==
    /\ fm.stage = "lines"
    /\ fm.lines # <<>>
    /\ fm' = [fm EXCEPT !.lines = Tail(fm.lines),
                        !.frontMatter = ParseLine(fm.frontMatter, Head(fm.lines))]
    /\ UNCHANGED <<fsys, index, proc, md, web>>

\* return { frontMatter, content: match[2].trim() }
ReturnFrontMatter ==
    /\ fm.stage = "lines"
    /\ fm.lines = <<>>
    /\ fm' = [fm EXCEPT !.stage = "returned", !.body = Trim(fm.rest)]
    /\ UNCHANGED <<fsys, index, proc, md, web>>

FmNext ==
    \/ ReturnNoFrontMatter
    \/ SplitBlock
    \/ NextLine
    \/ ReturnFrontMatter

(***************************************************************************)
(* Documents given to parseFrontMatter                                     *)
(***************************************************************************)

MaxFrontLines == 2      \* lines of a front-matter block

\* lines of a block: plain, quoted and bracketed values, a key that comes
\* twice, a line without a colon, a value with a colon, padded texts
FrontLines ==
    {<<"t", "i", "t", "l", "e", ":", " ", "T">>,
     <<"t", "i", "t", "l", "e", ":", " ", "\"", "T", "\"">>,
     <<"t", "i", "t", "l", "e", ":", " ", "U">>,
     <<"t", "a", "g", "s", ":", " ", "[", "a", ",", " ", "b", "]">>,
     <<"t", "a", "g", "s", ":", " ", "[", "\"", "a", "\"", ",", " ", "\"", "b", "\"", ",", " ", "\"", "a", "\"", ",", "]">>,
     <<"t", "a", "g", "s", ":", " ", "\"", "[", "a", ",", " ", "b", "]", "\"">>,
     <<"n", "o", "t", "e">>,
     <<"u", "r", "l", ":", " ", "a", ":", "b">>,
     <<" ", "k", " ", ":", " ", " ", "v", " ">>,
     <<"q", ":", " ", "\"", "\"", "T", "\"", "\"">>,
     <<"e", ":", " ", "[", "]">>,
     <<>>}

DocBodies ==
    {<<>>,
     <<"x">>,
     <<NL, " ", "x", NL>>}

\* a block between its two delimiter lines, and the body after it
FrontDocument(lines, body) ==
    Dashes \o <<NL>> \o JoinLines(lines) \o <<NL>> \o Dashes \o <<NL>> \o body

\* texts without a block at their start, a block of no line, and a
\* document with CRLF line ends
OtherDocuments ==
    {<<>>,
     <<"x">>,
     <<"-", "-", "-", NL, "t", "i", "t", "l", "e", ":", " ", "T">>,
     <<"x", NL, "-", "-", "-", NL, "t", "i", "t", "l", "e", ":", " ", "T", NL, "-", "-", "-", NL, "x">>,
     <<"-", "-", "-", NL, "t", "i", "t", "l", "e", ":", " ", "T", NL, "-", "-", "-">>,
     <<"-", "-", "-", NL, "-", "-", "-", NL, "x">>,
     <<"-", "-", "-", "-", NL, "t", "i", "t", "l", "e", ":", " ", "T", NL, "-", "-", "-", NL, "x">>,
     <<"-", "-", "-", CR, NL, "t", "i", "t", "l", "e", ":", " ", "T", CR, NL, "-", "-", "-", CR, NL, "x", CR, NL>>,
     <<" ", "-", "-", "-", NL, "t", "i", "t", "l", "e", ":", " ", "T", NL, "-", "-", "-", NL, "x">>}

FrontDocuments ==
    {FrontDocument(lines, body) :
        lines \in SeqsUpTo(FrontLines, MaxFrontLines) \ {<<>>}, body \in DocBodies}
    \cup OtherDocuments

FrontInit ==
    /\ fsys = EmptyDir
    /\ index = NoIndex
    /\ proc = NoProc
    /\ md = NoMd
    /\ \E content \in FrontDocuments : fm = StartFrontMatter(content)
    /\ web = NoWeb

SpecFront == FrontInit /\ [][FmNext]_vars

(***************************************************************************)
(* Claims about parseFrontMatter                                           *)
(***************************************************************************)

\* text without the white space at its two ends
Trimmed(text) ==
    CHOOSE t \in {SubSeq(text, a, b) : a \in 1..(Len(text) + 1), b \in 0..Len(text)} :
        IsTrimmed(t, text)

HasColon(line) == \E i \in 1..Len(line) : line[i] = ":"

FirstColon(line) ==
    CHOOSE i \in 1..Len(line) : line[i] = ":" /\ \A j \in 1..(i - 1) : line[j] # ":"

\* the key and the raw value a block line with a colon stands for
KeyOf(line) == Trimmed(SubSeq(line, 1, FirstColon(line) - 1))
RawValueOf(line) == Trimmed(SubSeq(line, FirstColon(line) + 1, Len(line)))

QuoteWrapped(raw) == Len(raw) >= 2 /\ raw[1] = Quote /\ raw[Len(raw)] = Quote
Bracketed(raw) == Len(raw) >= 2 /\ raw[1] = "[" /\ raw[Len(raw)] = "]"

\* the value a record holds for a key
ValueOf(frontMatter, key) ==
    frontMatter[CHOOSE i \in 1..Len(frontMatter) : frontMatter[i][1] = key][2]

\* a block line with a colon is being read
ReadsEntry == fm.stage = "lines" /\ fm.lines # <<>> /\ HasColon(Head(fm.lines))

\* C12: a value wrapped in a pair of double quotes is stored as a string,
\* the text between the quotes, and never as a list, also when the text
\* between the quotes is bracketed.
C12_QuotedStaysScalar ==
    [][(ReadsEntry /\ QuoteWrapped(RawValueOf(Head(fm.lines))))
        => LET raw == RawValueOf(Head(fm.lines))
           IN  ValueOf(fm'.frontMatter, KeyOf(Head(fm.lines)))
                   = StringValue(SubSeq(raw, 2, Len(raw) - 1))]_vars

FrontMatterReturned == fm.stage = "returned"

\* the items of a list, a comma and a space between two of them
RECURSIVE WriteItems(_)
WriteItems(items) ==
    IF items = <<>> THEN <<>>
    ELSE IF Len(items) = 1 THEN items[1]
    ELSE items[1] \o <<",", " ">> \o WriteItems(Tail(items))

WriteValue(value) ==
    IF value.list THEN <<"[">> \o WriteItems(value.items) \o <<"]">> ELSE value.text

\* one key: value line for each key of the record
RECURSIVE WriteEntries(_)
WriteEntries(frontMatter) ==
    IF frontMatter = <<>> THEN <<>>
    ELSE Head(frontMatter)[1] \o <<":", " ">> \o WriteValue(Head(frontMatter)[2])
         \o <<NL>> \o WriteEntries(Tail(frontMatter))

\* a record and a body written with the delimiter convention
WriteDocument(frontMatter, body) ==
    Dashes \o <<NL>> \o WriteEntries(frontMatter) \o Dashes \o <<NL>> \o body

\* C13: the record and the body parseFrontMatter returns, written back
\* with the delimiter convention and extracted again, give the same record
\* and the same body.
C13_RoundTrip ==
    FrontMatterReturned =>
        ParseFrontMatter(WriteDocument(fm.frontMatter, fm.body))
            = [frontMatter |-> fm.frontMatter, content |-> fm.body]

\* a line of content that starts at position i and is --- and nothing else
DelimiterLineAt(content, i) ==
    /\ i = 1 \/ content[i - 1] = NL
    /\ At(content, i, Dashes)
    /\ \/ i + 3 > Len(content)
       \/ content[i + 3] = NL
       \/ At(content, i + 3, <<CR, NL>>)

\* content starts with a --- line that a second --- line closes
StartsWithBlock(content) ==
    /\ DelimiterLineAt(content, 1)
    /\ \E i \in 2..Len(content) : DelimiterLineAt(content, i)

\* C14: when the text does not start with a --- line closed by a second
\* --- line, parseFrontMatter reads no line of it and returns an empty
\* record and the whole text, unchanged, as body.
C14_NoBlockReturnsInput ==
    ~StartsWithBlock(fm.content) =>
        /\ fm.stage \in {"called", "returned"}
        /\ FrontMatterReturned => fm.frontMatter = <<>> /\ fm.body = fm.content

\* a text whose block is not at its start, returned as it is
C14_Witness ==
    /\ FrontMatterReturned
    /\ fm.content = <<"x", NL, "-", "-", "-", NL, "t", "i", "t", "l", "e", ":", " ", "T", NL, "-", "-", "-", NL, "x">>
    /\ fm.frontMatter = <<>>
    /\ fm.body = fm.content

\* where the closing delimiter line of a text that starts with a block is
ClosingDelimiterLine(content) ==
    CHOOSE i \in 2..Len(content) :
        /\ DelimiterLineAt(content, i)
        /\ \A j \in 2..(i - 1) : ~DelimiterLineAt(content, j)

\* the line of content that starts at position p
LineAt(content, p) ==
    LET ends == {e \in p..Len(content) : content[e] = NL}
    IN  IF ends = {} THEN SubSeq(content, p, Len(content))
        ELSE SubSeq(content, p, (CHOOSE e \in ends : \A f \in ends : e <= f) - 1)

\* where the lines between the two delimiter lines start
BlockLineStarts(content) ==
    {p \in (Len(Dashes) + 2)..(ClosingDelimiterLine(content) - 1) : content[p - 1] = NL}

RecordKeys(frontMatter) == {frontMatter[i][1] : i \in 1..Len(frontMatter)}

\* a document, with LF line ends, that starts with a block
BlockDocument(content) ==
    StartsWithBlock(content) /\ \A i \in 1..Len(content) : content[i] # CR

\* C15: for a document that starts with a front-matter block, the keys of
\* the record are the trimmed texts before the first colon of the block
\* lines that hold a colon, and no other; a value that is neither quoted
\* nor bracketed is the trimmed text after that first colon of the last line
\* with its key; the body is the text after the closing delimiter line,
\* trimmed.
C15_KeysValuesBody ==
    (FrontMatterReturned /\ BlockDocument(fm.content)) =>
        LET starts == BlockLineStarts(fm.content)
            entries == {p \in starts : HasColon(LineAt(fm.content, p))}
            close == ClosingDelimiterLine(fm.content)
        IN  /\ RecordKeys(fm.frontMatter)
                  = {KeyOf(LineAt(fm.content, p)) : p \in entries}
            /\ \A p \in entries :
                  LET line == LineAt(fm.content, p)
                      IsLast == \A q \in entries :
                                    q > p => KeyOf(LineAt(fm.content, q)) # KeyOf(line)
                      raw == RawValueOf(line)
                  IN  (IsLast /\ ~QuoteWrapped(raw) /\ ~Bracketed(raw))
                          => ValueOf(fm.frontMatter, KeyOf(line)) = StringValue(raw)
            /\ fm.body = Trimmed(SubSeq(fm.content, close + Len(Dashes) + 1,
                                        Len(fm.content)))

\* the k-th comma of text (0 before the first, Len(text) + 1 after the last)
CommaPosition(text, k) ==
    LET commas == {i \in 1..Len(text) : text[i] = ","}
    IN  IF k = 0 THEN 0
        ELSE IF k > Cardinality(commas) THEN Len(text) + 1
        ELSE CHOOSE i \in commas : Cardinality({j \in commas : j < i}) = k - 1

WithoutQuotesAndBrackets(text) ==
    LET Kept(c) == c # Quote /\ c # "[" /\ c # "]"
    IN  SelectSeq(text, Kept)

\* the items a bracketed value stands for: the texts between its commas, in
\* their order, each trimmed and then without quotes and brackets
ItemsOf(raw) ==
    LET inner == SubSeq(raw, 2, Len(raw) - 1)
        count == Cardinality({i \in 1..Len(inner) : inner[i] = ","}) + 1
    IN  [k \in 1..count |->
            WithoutQuotesAndBrackets(
                Trimmed(SubSeq(inner, CommaPosition(inner, k - 1) + 1,
                               CommaPosition(inner, k) - 1)))]

\* the block lines whose key the record holds with the value of that line
LastEntries(content) ==
    LET entries == {p \in BlockLineStarts(content) : HasColon(LineAt(content, p))}
    IN  {p \in entries :
            \A q \in entries :
                q > p => KeyOf(LineAt(content, q)) # KeyOf(LineAt(content, p))}

\* the block of the document has been read into the record
BlockRead == FrontMatterReturned /\ BlockDocument(fm.content) /\ fm.body # fm.content

\* C16: a bracketed value is extracted as the sequence of its items, in
\* their order and with duplicates kept, each item trimmed and without
\* quote and bracket characters, a trailing comma giving an empty item.
C16_BracketedIsSequence ==
    BlockRead =>
        \A p \in LastEntries(fm.content) :
            LET line == LineAt(fm.content, p)
            IN  Bracketed(RawValueOf(line))
                    => ValueOf(fm.frontMatter, KeyOf(line))
                           = ArrayValue(ItemsOf(RawValueOf(line)))

\* the four items of ["a", "b", "a",]
C16_Witness ==
    /\ FrontMatterReturned
    /\ fm.content = <<"-", "-", "-", NL, "t", "a", "g", "s", ":", " ", "[", "\"", "a", "\"", ",", " ", "\"", "b", "\"", ",", " ", "\"", "a", "\"", ",", "]", NL, "-", "-", "-", NL, "x">>
    /\ fm.frontMatter = <<<<<<"t", "a", "g", "s">>, ArrayValue(<<<<"a">>, <<"b">>, <<"a">>, <<>>>>)>>>>

\* the block lines whose key is also the key of an earlier line
RepeatedEntries(content) ==
    LET entries == {p \in BlockLineStarts(content) : HasColon(LineAt(content, p))}
    IN  {p \in entries :
            \E q \in entries :
                q < p /\ KeyOf(LineAt(content, q)) = KeyOf(LineAt(content, p))}

\* the value a raw text stands for when it is plain, bracketed, or quoted
\* around a text that is not bracketed
StoredValue(raw) ==
    IF Bracketed(raw) THEN ArrayValue(ItemsOf(raw))
    ELSE IF QuoteWrapped(raw) THEN StringValue(SubSeq(raw, 2, Len(raw) - 1))
    ELSE StringValue(raw)

QuotedBrackets(raw) == QuoteWrapped(raw) /\ Bracketed(SubSeq(raw, 2, Len(raw) - 1))

\* C17: no two entries of a record have the same key, and a key that comes
\* on several lines of the block has the value of the last of these lines.
C17_LastOccurrenceWins ==
    /\ \A i, j \in 1..Len(fm.frontMatter) :
          fm.frontMatter[i][1] = fm.frontMatter[j][1] => i = j
    /\ BlockRead =>
          \A p \in LastEntries(fm.content) \cap RepeatedEntries(fm.content) :
              LET line == LineAt(fm.content, p)
              IN  ~QuotedBrackets(RawValueOf(line))
                      => ValueOf(fm.frontMatter, KeyOf(line))
                             = StoredValue(RawValueOf(line))

\* title: T then title: U gives one title, U
C17_Witness ==
    /\ FrontMatterReturned
    /\ fm.content = <<"-", "-", "-", NL, "t", "i", "t", "l", "e", ":", " ", "T", NL, "t", "i", "t", "l", "e", ":", " ", "U", NL, "-", "-", "-", NL, "x">>
    /\ fm.frontMatter = <<<<<<"t", "i", "t", "l", "e">>, StringValue(<<"U">>)>>>>

(***************************************************************************)
(* Claims about emphasis, headers and text no rule matches                 *)
(***************************************************************************)

\* the positions where the lines of text start
LineStarts(text) == {p \in 1..Len(text) : p = 1 \/ text[p - 1] = NL}

HasLine(text, line) == \E p \in LineStarts(text) : LineAt(text, p) = line

BoldItalicLine == <<"*", "*", "*", "x", "*", "*", "*">>

\* C18: a line ***x*** becomes <strong><em>x</em></strong> when the
\* bold-italic rule runs and stays so; the bold and the italic rule take no
\* part of it, and the result holds no asterisk.
C18_BoldItalicNested ==
    (HasLine(md.source, BoldItalicLine) /\ md.stage >= 6) =>
        /\ Includes(md.html, <<"<", "s", "t", "r", "o", "n", "g", ">", "<", "e", "m", ">", "x", "<", "/", "e", "m", ">", "<", "/", "s", "t", "r", "o", "n", "g", ">">>)
        /\ ~Includes(md.html, <<"<", "s", "t", "r", "o", "n", "g", ">", "*">>)
        /\ ~Includes(md.html, <<"*", "<", "/", "s", "t", "r", "o", "n", "g", ">">>)
        /\ ~Includes(md.html, <<"<", "e", "m", ">", "*">>)
        /\ ~Includes(md.html, <<"*", "<", "/", "e", "m", ">">>)
        /\ md.stage = Returned => ~Includes(md.html, <<"*">>)

\* an italic line and a bold-italic line in one paragraph
C18_Witness ==
    /\ md.stage = Returned
    /\ md.source = <<"*", "i", "*", NL, "*", "*", "*", "x", "*", "*", "*">>
    /\ md.html = <<"<", "p", ">", "<", "e", "m", ">", "i", "<", "/", "e", "m", ">", NL, "<", "s", "t", "r", "o", "n", "g", ">", "<", "e", "m", ">", "x", "<", "/", "e", "m", ">", "<", "/", "s", "t", "r", "o", "n", "g", ">", "<", "/", "p", ">">>

\* the k-th line of text
KthLine(text, k) ==
    LineAt(text, CHOOSE p \in LineStarts(text) :
                     Cardinality({q \in LineStarts(text) : q < p}) = k - 1)

\* n when the line starts with n # characters and a space, 1 <= n <= 4, and
\* 0 when it does not
HeaderLevel(line) ==
    IF \E n \in 1..4 : Len(line) > n /\ line[n + 1] = " " /\ \A i \in 1..n : line[i] = "#"
    THEN CHOOSE n \in 1..4 : Len(line) > n /\ line[n + 1] = " " /\ \A i \in 1..n : line[i] = "#"
    ELSE 0

Digit(n) == CASE n = 1 -> "1" [] n = 2 -> "2" [] n = 3 -> "3" [] n = 4 -> "4"

\* the heading element of level n around text
Heading(n, text) ==
    <<"<", "h", Digit(n), ">">> \o text \o <<"<", "/", "h", Digit(n), ">">>

\* C19: once the four header rules have run, each line that starts with n #
\* characters (1 <= n <= 4) and a space is the heading element of level n
\* around the rest of that line and nothing else, the lines in their
\* order; the element is in the result of parseMarkdown.
C19_HeaderLines ==
    /\ md.stage \in 5..NumRules =>
          /\ Cardinality(LineStarts(md.html)) = Cardinality(LineStarts(md.source))
          /\ \A k \in 1..Cardinality(LineStarts(md.source)) :
                LET line == KthLine(md.source, k)
                    n == HeaderLevel(line)
                IN  n # 0 => KthLine(md.html, k)
                                 = Heading(n, SubSeq(line, n + 2, Len(line)))
    /\ md.stage = Returned =>
          \A p \in LineStarts(md.source) :
              LET line == LineAt(md.source, p)
                  n == HeaderLevel(line)
              IN  n # 0 => Includes(md.html, Heading(n, SubSeq(line, n + 2, Len(line))))

\* # T then #### S
C19_Witness ==
    /\ md.stage = Returned
    /\ md.source = <<"#", " ", "T", NL, "#", "#", "#", "#", " ", "S">>
    /\ md.html = <<"<", "h", "1", ">", "T", "<", "/", "h", "1", ">", NL, "<", "h", "4", ">", "S", "<", "/", "h", "4", ">">>

(***************************************************************************)
(* Bodies of text the rule table has no pattern for                        *)
(***************************************************************************)

MaxPlainLines == 3      \* lines of such a body

\* the empty line, plain text, markers without their closing half or their
\* space, and text that holds list tags
PlainLines ==
    {<<>>,
     <<"x">>,
     <<"*", "i">>,
     <<"#", "x">>,
     <<"[", "t", "]", "(">>,
     <<BT, "c">>,
     <<"a", "<", "/", "u", "l", ">", " ", "<", "u", "l", ">", "b">>}

PlainBodies == {JoinLines(lines) : lines \in SeqsUpTo(PlainLines, MaxPlainLines)}

PlainInit ==
    /\ fsys = EmptyDir
    /\ index = NoIndex
    /\ proc = NoProc
    /\ fm = NoFm
    /\ web = NoWeb
    /\ \E markdown \in PlainBodies : md = StartParse(markdown)

SpecPlain == PlainInit /\ [][MdNext]_vars

\* no pattern of the rule table matches anywhere in text
NoRuleMatches(text) ==
    \A k \in 1..NumRules, i \in 1..Len(text) : ~MatchAt(k, text, i).ok

\* the paragraph of text that starts at position p: up to the next blank
\* line
ParagraphAt(text, p) ==
    LET ends == {e \in p..(Len(text) - 1) : text[e] = NL /\ text[e + 1] = NL}
    IN  IF ends = {} THEN SubSeq(text, p, Len(text))
        ELSE SubSeq(text, p, (CHOOSE e \in ends : \A f \in ends : e <= f) - 1)

ParagraphStarts(text) ==
    {p \in 1..Len(text) : p = 1 \/ (p > 2 /\ text[p - 2] = NL /\ text[p - 1] = NL)}

\* C20: parseMarkdown returns a text for every body, and a body no rule
\* pattern matches is in the result literally, paragraph by paragraph,
\* changed by the wrapping of its paragraphs only.
C20_UnmatchedPassesThrough ==
    (md.stage = Returned /\ NoRuleMatches(md.source)) =>
        \A p \in ParagraphStarts(md.source) :
            Includes(md.html, Trimmed(ParagraphAt(md.source, p)))

(***************************************************************************)
(* Claims about the files the command lines write                          *)
(***************************************************************************)

\* C21: a convert run does not write over its source document: after the
\* run the input path holds what it held before, also when no output path
\* is given and the default one is used.
C21_SourceNotOverwritten ==
    [][(proc'.cmd = "convert" /\ proc'.input \in DOMAIN fsys)
            => fsys'[proc'.input] = fsys[proc'.input]]_vars


\* the names of the posts directory that build-all is to convert: they end
\* with ".md" and do not start with "."
BuildAllSources ==
    {p \in {AMd, BMd, HiddenMd, NotesTxt} :
        /\ fsys[p] # NoFile
        /\ Len(p) >= 3
        /\ SubSeq(p, Len(p) - 2, Len(p)) = <<".", "m", "d">>
        /\ p[1] # "."}

\* the page of a source document in the output directory of the run
PageOf(p) ==
    LET name == SubSeq(p, 1, Len(p) - 3) \o <<".", "h", "t", "m", "l">>
    IN  IF proc.output = NoArg THEN name ELSE proc.output \o <<"/">> \o name

BuildAllRan ==
    /\ proc.cmd = "build-all"
    /\ ~(\E i \in 1..Len(proc.log) : proc.log[i] = "Input directory not found")

\* C22: a build-all run over readable documents ends with exit code 0, has
\* converted as many documents as the input directory has names that end
\* with .md and do not start with a dot, has left the page <name>.html of
\* each of them in the output directory, and the output directory exists,
\* also when it did not before the run.
C22_BuildAllConvertsMarkdownFiles ==
    (BuildAllRan /\ \A p \in BuildAllSources : fsys[p].readable)
        => /\ proc.exit = 0
           /\ proc.converted = Cardinality(BuildAllSources)
           /\ proc.failed = 0
           /\ \A p \in BuildAllSources : fsys[PageOf(p)].kind = "html"
           /\ proc.output # NoArg => fsys[proc.output].kind = "dir"

C22_Witness ==
    /\ BuildAllRan
    /\ proc.output = OutDir
    /\ BuildAllSources = {AMd, BMd}
    /\ fsys[HiddenMd] # NoFile
    /\ fsys[NotesTxt] # NoFile
    /\ proc.converted = 2
    /\ fsys[ReplaceMdSuffix(AMd)] = NoFile
    /\ fsys[PathJoin(OutDir, ReplaceMdSuffix(AMd))].kind = "html"
    /\ fsys[PathJoin(OutDir, ReplaceMdSuffix(BMd))].kind = "html"

(* Claims about the entries of the index *)
\* the entry of the index for a document, when it has one
HasEntry(p) ==
    \E i \in 1..Len(index) :
        index[i].url = <<".", "/", "p", "o", "s", "t", "s", "/">>
                          \o SubSeq(p, 1, Len(p) - 3) \o <<".", "h", "t", "m", "l">>

EntryOf(p) ==
    index[CHOOSE i \in 1..Len(index) :
        index[i].url = <<".", "/", "p", "o", "s", "t", "s", "/">>
                          \o SubSeq(p, 1, Len(p) - 3) \o <<".", "h", "t", "m", "l">>]

\* C24: after an update-metadata run that wrote the index, a document of the
\* directory has an entry exactly when its title and its date are not empty;
\* the entry has the url ./posts/<name>.html and the fields of the front
\* matter, with 'general', '', [], '5 min read' and 'Prashish Phunyal' for
\* the fields that are absent, and [] for tags that are not a list.
C24_EntryAndDefaults ==
    IndexWritten =>
        /\ Len(index) = Cardinality({p \in BatchDocs : HasEntry(p)})
        /\ \A p \in BatchDocs :
              LET f == fsys[p]
              IN  /\ HasEntry(p) <=> (f.title # <<>> /\ f.date # NoDate)
                  /\ HasEntry(p) =>
                        LET e == EntryOf(p)
                        IN  /\ e.title = f.title
                            /\ e.date = f.date
                            /\ e.category = IF f.fields.category = <<>>
                                            THEN <<"g", "e", "n", "e", "r", "a", "l">>
                                            ELSE f.fields.category
                            /\ e.excerpt = f.fields.excerpt
                            /\ e.tags = IF f.fields.tags.list
                                        THEN f.fields.tags.items ELSE <<>>
                            /\ e.readTime = IF f.fields.readTime = ""
                                            THEN "5 min read"
                                            ELSE f.fields.readTime
                            /\ e.author = IF f.fields.author = ""
                                          THEN "Prashish Phunyal"
                                          ELSE f.fields.author

\* an index with the entry of a document whose tags are not a list, next to
\* a document without a title that has no entry
C24_Witness ==
    /\ IndexWritten
    /\ fsys[AMd] = ScalarTagsDoc
    /\ HasEntry(AMd)
    /\ EntryOf(AMd).tags = <<>>
    /\ EntryOf(AMd).readTime = "5 min read"
    /\ Len(index) = 2

\* C26: an update-metadata run, with or without a directory argument, leaves
\* every file of the posts directory and of the other directory as it was;
\* the index it builds from the directory it was given is what
\* ./posts/metadata.json holds after the run. For the directory of pages,
\* which has no document, that is the empty list.
C26_IndexAtFixedPath ==
    [][proc'.cmd = "update-metadata"
          => /\ fsys' = fsys
             /\ (\E i \in 1..Len(proc'.log) : proc'.log[i] = "Updated metadata.json")
                   => /\ proc'.input = OutDir => index' = <<>>
                      /\ proc'.input = NoArg
                           => Len(index') = Cardinality({p \in {AMd, BMd} :
                                                          fsys[p] # NoFile})]_vars

\* a run on the other directory replaced an index of two entries by the
\* empty one, the two documents being in the posts directory
C26_Witness ==
    /\ IndexWritten
    /\ proc.input = OutDir
    /\ proc.dropped
    /\ index = <<>>
    /\ fsys[AMd] # NoFile
    /\ fsys[BMd] # NoFile
    /\ fsys[PathJoin(OutDir, MetadataJson)] = NoFile

(***************************************************************************)
(* blog.js: BlogSystem                                                     *)
(***************************************************************************)

UpperCase == <<"A", "B", "C", "D", "E", "F", "G", "H", "I", "J", "K", "L", "M", "N", "O", "P", "Q", "R", "S", "T", "U", "V", "W", "X", "Y", "Z">>
LowerCase == <<"a", "b", "c", "d", "e", "f", "g", "h", "i", "j", "k", "l", "m", "n", "o", "p", "q", "r", "s", "t", "u", "v", "w", "x", "y", "z">>

\* String.prototype.toLowerCase, for the letters of the model
LowerChar(c) ==
    IF \E i \in 1..Len(UpperCase) : UpperCase[i] = c
    THEN LowerCase[CHOOSE i \in 1..Len(UpperCase) : UpperCase[i] = c]
    ELSE c

ToLowerCase(s) == [i \in 1..Len(s) |-> LowerChar(s[i])]

\* this.categories
Categories ==
    <<<<<<"b", "l", "o", "c", "k", "c", "h", "a", "i", "n">>, <<"B", "l", "o", "c", "k", "c", "h", "a", "i", "n">>>>,
      <<<<"c", "r", "y", "p", "t", "o", "g", "r", "a", "p", "h", "y">>, <<"C", "r", "y", "p", "t", "o", "g", "r", "a", "p", "h", "y">>>>,
      <<<<"f", "r", "a", "g", "m", "e", "n", "t", "s">>, <<"F", "r", "a", "g", "m", "e", "n", "t", "s">>>>,
      <<<<"m", "a", "t", "h", "e", "m", "a", "t", "i", "c", "s">>, <<"M", "a", "t", "h", "e", "m", "a", "t", "i", "c", "s">>>>>>

\* getCategoryName(categorySlug): this.categories[categorySlug] || categorySlug
GetCategoryName(categorySlug) ==
    IF \E i \in 1..Len(Categories) : Categories[i][1] = categorySlug
    THEN Categories[CHOOSE i \in 1..Len(Categories) : Categories[i][1] = categorySlug][2]
    ELSE categorySlug

\* getPostsByCategory(categorySlug)
GetPostsByCategory(posts, categorySlug) ==
    LET InCategory(post) == post.category = categorySlug
    IN  SelectSeq(posts, InCategory)

\* a validatePost that asks for an excerpt too
IsValidPostWithExcerpt(post) ==
    ~(post.title = <<>> \/ post.date = NoDate \/ post.category = <<>>
      \/ post.excerpt = <<>>)

\* validatePost(post) returns an object, not null
IsValidPost(post) ==
    ~(post.title = <<>> \/ post.date = NoDate \/ post.category = <<>>)

\* the object validatePost returns. Every entry of the index has a url and a
\* readTime, so the fallbacks utils.slugify and estimateReadTime are not
\* taken.
ValidatePost(post) ==
    [title |-> post.title,
     date |-> post.date,
     category |-> post.category,
     url |-> post.url,
     excerpt |-> post.excerpt,
     tags |-> post.tags,
     author |-> IF post.author # "" THEN post.author ELSE "Prashish Phunyal",
     readTime |-> post.readTime]

\* this.posts.map(post => this.validatePost(post)).filter(Boolean)
ValidPosts(posts) ==
    LET kept == SelectSeq(posts, IsValidPost)
    IN  [i \in 1..Len(kept) |-> ValidatePost(kept[i])]

\* the filter callback of searchPosts
MatchesSearch(post, searchTerm) ==
    \/ Includes(ToLowerCase(post.title), searchTerm)
    \/ Includes(ToLowerCase(post.excerpt), searchTerm)
    \/ \E i \in 1..Len(post.tags) : Includes(ToLowerCase(post.tags[i]), searchTerm)
    \/ Includes(ToLowerCase(GetCategoryName(post.category)), searchTerm)

\* a search that looks at titles and excerpts only
SearchPostsByText(posts, query) ==
    IF query = <<>> \/ Len(Trim(query)) < 2 THEN posts
    ELSE LET searchTerm == Trim(ToLowerCase(query))
             Matches(post) ==
                 \/ Includes(ToLowerCase(post.title), searchTerm)
                 \/ Includes(ToLowerCase(post.excerpt), searchTerm)
         IN  SelectSeq(posts, Matches)

\* searchPosts(query)
SearchPosts(posts, query) ==
    IF query = <<>> \/ Len(Trim(query)) < 2 THEN posts
    ELSE LET searchTerm == Trim(ToLowerCase(query))
             Matches(post) == MatchesSearch(post, searchTerm)
         IN  SelectSeq(posts, Matches)

RecentLimit == 10

\* getRecentPosts(): the array is sorted in place; sorted is what the sort
\* leaves in this.posts
GetRecentPosts(sorted) ==
    SubSeq(sorted, 1, IF Len(sorted) < RecentLimit THEN Len(sorted) ELSE RecentLimit)

\* renderPostList(posts, container): the content of the list, one item for
\* each post, named by its link
RenderPostList(posts) ==
    IF Len(posts) = 0
    THEN [note |-> "No posts found.", items |-> <<>>]
    ELSE [note |-> "", items |-> [i \in 1..Len(posts) |-> posts[i].url]]

(***************************************************************************)
(* router.js and its variant: CategoryRouter. web.variant is "replace" for *)
(* router.js, which writes main.innerHTML, and "keep" for the variant that *)
(* keeps the home sections in the page.                                    *)
(***************************************************************************)

CategoryPrefix == <<"#", "c", "a", "t", "e", "g", "o", "r", "y", "/">>
CategoryRoute == <<"c", "a", "t", "e", "g", "o", "r", "y", "/">>
HomeTitle == <<"B", "l", "o", "g", " ", "|", " ", "P", "r", "a", "s", "h", "i", "s", "h", " ", "P", "h", "u", "n", "y", "a", "l">>
TitleSuffix == <<" ", "|", " ", "B", "l", "o", "g", " ", "|", " ", "P", "r", "a", "s", "h", "i", "s", "h", " ", "P", "h", "u", "n", "y", "a", "l">>

\* data-category of the category links of the home page
LinkCategories == {<<"b", "l", "o", "c">>, <<"c", "r", "y", "p">>, <<"f", "r", "a", "g">>, <<"m", "a", "t", "h">>}

\* element.style.display = value, when the element is in the document
SetDisplay(display, value) == IF display = "absent" THEN display ELSE value

\* the section is in the document and is displayed
Displayed(display) == display \in {"", "block"}

\* document.querySelector('.category-page').remove(), when there is one
RemoveCategoryPage(pages) == IF pages = <<>> THEN pages ELSE Tail(pages)

\* hideHomeElements()
HideHomeElements(w) ==
    [w EXCEPT !.main.search = SetDisplay(@, "none"),
              !.main.categories = SetDisplay(@, "none"),
              !.main.postsSection =
                  IF w.variant = "keep" THEN SetDisplay(@, "none") ELSE @]

\* showHomeElements()
ShowHomeElements(w) ==
    [w EXCEPT !.main.pages = IF w.variant = "keep" THEN RemoveCategoryPage(@) ELSE @,
              !.main.search = SetDisplay(@, "block"),
              !.main.categories = SetDisplay(@, "block"),
              !.main.postsSection =
                  IF w.variant = "keep" THEN SetDisplay(@, "block") ELSE @]

\* updateActiveCategoryLink(activeCategory), <<>> standing for null
UpdateActiveCategoryLink(w, activeCategory) ==
    [w EXCEPT !.main.active =
        IF w.main.categories # "absent" /\ activeCategory \in LinkCategories
        THEN activeCategory ELSE <<>>]

\* the .category-page element that renderCategoryPage builds
CategoryPage(categorySlug, categoryName, posts) ==
    [slug |-> categorySlug,
     name |-> categoryName,
     list |-> IF Len(posts) > 0 THEN RenderPostList(posts)
              ELSE [note |-> "No posts in this category yet.", items |-> <<>>]]

\* a renderCategoryPage that appends without removing the page that is there
RenderCategoryPageAppending(w, categorySlug, categoryName, posts) ==
    LET page == CategoryPage(categorySlug, categoryName, posts)
    IN  IF w.variant = "replace"
        THEN [w EXCEPT !.main =
                 [search |-> "absent", categories |-> "absent",
                  postsSection |-> "absent",
                  recent |-> [note |-> "absent", items |-> <<>>],
                  pages |-> <<page>>, active |-> <<>>]]
        ELSE [w EXCEPT !.main.pages = @ \o <<page>>]

\* renderCategoryPage(categorySlug, categoryName, posts): main.innerHTML is
\* the page (router.js), or the page replaces the one that is in main
RenderCategoryPage(w, categorySlug, categoryName, posts) ==
    LET page == CategoryPage(categorySlug, categoryName, posts)
    IN  IF w.variant = "replace"
        THEN [w EXCEPT !.main =
                 [search |-> "absent", categories |-> "absent",
                  postsSection |-> "absent",
                  recent |-> [note |-> "absent", items |-> <<>>],
                  pages |-> <<page>>, active |-> <<>>]]
        ELSE [w EXCEPT !.main.pages = RemoveCategoryPage(@) \o <<page>>]

\* renderHomePage(), up to the await of reinitializeComponents: one more
\* continuation waits for its timer
RenderHomePage(w) ==
    LET shown == IF w.variant = "replace" THEN [w EXCEPT !.main = HomeMain]
                 ELSE ShowHomeElements(w)
    IN  [shown EXCEPT !.timers = @ + 1]

\* showCategoryPage(categorySlug)
ShowCategoryPage(w, categorySlug) ==
    LET categoryName == GetCategoryName(categorySlug)
        posts == GetPostsByCategory(w.posts, categorySlug)
        routed == [w EXCEPT !.currentRoute = CategoryRoute \o categorySlug,
                            !.title = categoryName \o TitleSuffix]
    IN  UpdateActiveCategoryLink(
            RenderCategoryPage(HideHomeElements(routed), categorySlug,
                               categoryName, posts),
            categorySlug)

\* showHomePage()
ShowHomePage(w) ==
    LET routed == [w EXCEPT !.currentRoute = <<>>, !.title = HomeTitle]
    IN  RenderHomePage(UpdateActiveCategoryLink(ShowHomeElements(routed), <<>>))

\* a handleRouteChange that leaves an unknown route where it is
HandleRouteChangeIgnoringUnknown(w) ==
    IF w.hash = <<>> \/ w.hash = <<"#">> THEN ShowHomePage(w)
    ELSE IF StartsWith(w.hash, CategoryPrefix)
         THEN ShowCategoryPage(w, SubSeq(w.hash, Len(CategoryPrefix) + 1, Len(w.hash)))
         ELSE w

\* handleRouteChange(); hash.replace('#category/', '') takes the prefix off
\* a hash that starts with it
HandleRouteChange(w) ==
    IF w.hash = <<>> \/ w.hash = <<"#">> THEN ShowHomePage(w)
    ELSE IF StartsWith(w.hash, CategoryPrefix)
         THEN ShowCategoryPage(w, SubSeq(w.hash, Len(CategoryPrefix) + 1, Len(w.hash)))
         ELSE ShowHomePage(w)

\* handleInitialRoute()
HandleInitialRoute(w) ==
    IF w.hash # <<>> /\ StartsWith(w.hash, CategoryPrefix)
    THEN HandleRouteChange(w) ELSE w

(***************************************************************************)
(* The page in the browser: the steps of the event loop                    *)
(***************************************************************************)

MaxEvents == 2     \* route events that wait to be dispatched
MaxTimers == 2     \* continuations of reinitializeComponents that wait

\* location.hash as the page is opened or as the visitor sets it
Hashes ==
    {<<>>, <<"#">>, <<"#", "c", "a", "t", "e", "g", "o", "r", "y", "/", "c", "r", "y", "p">>, <<"#", "c", "a", "t", "e", "g", "o", "r", "y", "/", "n", "o", "n", "e">>, <<"#", "a", "b", "o", "u", "t">>}

\* new CategoryRouter(): the constructor sets currentRoute and calls init(),
\* which runs to the fetch of loadPosts
OpenPage ==
    /\ web.stage = "closed"
    /\ \E variant \in {"replace", "keep"}, hash \in Hashes :
          web' = [NoWeb EXCEPT !.variant = variant, !.stage = "loading",
                               !.hash = hash]
    /\ UNCHANGED <<fsys, index, proc, md, fm>>

\* loadPosts() from the point where the fetch settles. data is the posts
\* array of the response. In the catch block this.getSamplePosts is not a
\* function (the method is commented out), so the call throws a TypeError
\* and the promise of loadPosts is rejected.
LoadPosts(w, data, outcome) ==
    IF outcome = "ok"
    THEN [rejected |-> FALSE, w |-> [w EXCEPT !.posts = ValidPosts(data)]]
    ELSE [rejected |-> TRUE, w |-> [w EXCEPT !.log = <<"Error loading posts">>]]

\* init() from the point where the fetch settles: the rest of loadPosts,
\* then bindEvents and handleInitialRoute, unless loadPosts rejects
RouterInit ==
    /\ web.stage = "loading"
    /\ \E outcome \in {"ok", "http error", "network error", "invalid json"} :
          LET r == LoadPosts(web, index, outcome)
          IN  web' = IF r.rejected THEN [r.w EXCEPT !.stage = "rejected"]
                     ELSE HandleInitialRoute([r.w EXCEPT !.stage = "ready",
                                                         !.bound = TRUE])
    /\ UNCHANGED <<fsys, index, proc, md, fm>>

\* the visitor changes the fragment (address bar, back button, the back
\* button of a category page): a hashchange or popstate event is queued
Navigate ==
    /\ web.stage # "closed"
    /\ web.events < MaxEvents
    /\ \E hash \in Hashes :
          /\ hash # web.hash
          /\ web' = [web EXCEPT !.hash = hash, !.events = @ + 1]
    /\ UNCHANGED <<fsys, index, proc, md, fm>>

\* the click listener of bindEvents on a category link of the home page:
\* navigateToCategory sets the hash
ClickCategoryLink ==
    /\ web.bound
    /\ Displayed(web.main.categories)
    /\ web.events < MaxEvents
    /\ \E category \in LinkCategories :
          /\ CategoryPrefix \o category # web.hash
          /\ web' = [web EXCEPT !.hash = CategoryPrefix \o category,
                                !.events = @ + 1]
    /\ UNCHANGED <<fsys, index, proc, md, fm>>

\* a hashchange or popstate event is dispatched: the listeners of
\* bindEvents, when they are registered, call handleRouteChange
RouteEvent ==
    /\ web.events > 0
    /\ LET w == [web EXCEPT !.events = @ - 1]
       IN  /\ web' = IF web.bound THEN HandleRouteChange(w) ELSE w
           /\ web'.timers <= MaxTimers
    /\ UNCHANGED <<fsys, index, proc, md, fm>>

\* a continuation that shows the home elements again before it goes on
ReinitializeComponentsShowingHome ==
    /\ web.timers > 0
    /\ \E hasSearchSystem \in BOOLEAN, sorted \in SortOutcomes(web.posts) :
          LET w == ShowHomeElements(web)
          IN  web' = IF w.main.recent.note = "absent"
                     THEN [w EXCEPT !.timers = @ - 1,
                                    !.searchSystem = @ \/ hasSearchSystem]
                     ELSE [w EXCEPT !.timers = @ - 1,
                                    !.searchSystem = @ \/ hasSearchSystem,
                                    !.posts = sorted,
                                    !.main.recent = RenderPostList(GetRecentPosts(sorted))]
    /\ UNCHANGED <<fsys, index, proc, md, fm>>

\* reinitializeComponents() after its timer of 100 ms: window.SearchSystem,
\* when the page has it, is initialised with the posts; the list of recent
\* posts, when it is in the document, gets the posts that getRecentPosts
\* returns after sorting this.posts in place
ReinitializeComponents ==
    /\ web.timers > 0
    /\ \E hasSearchSystem \in BOOLEAN, sorted \in SortOutcomes(web.posts) :
          web' = IF web.main.recent.note = "absent"
                 THEN [web EXCEPT !.timers = @ - 1,
                                  !.searchSystem = @ \/ hasSearchSystem]
                 ELSE [web EXCEPT !.timers = @ - 1,
                                  !.searchSystem = @ \/ hasSearchSystem,
                                  !.posts = sorted,
                                  !.main.recent = RenderPostList(GetRecentPosts(sorted))]
    /\ UNCHANGED <<fsys, index, proc, md, fm>>

\* what the visitor may type in the search box
Queries ==
    {<<>>, <<" ">>, <<"s">>, <<" ", "h", " ">>, <<"S", "H", "A">>, <<" ", "H", "a">>, <<"C", "r", "y", "p", "t", "o">>, <<"g", "e", "n">>, <<"z", "z">>}

\* a call of searchPosts(query) on the loaded posts
Search ==
    /\ web.stage = "ready"
    /\ \E query \in Queries :
          web' = [web EXCEPT !.query = query,
                             !.results = SearchPosts(web.posts, query)]
    /\ UNCHANGED <<fsys, index, proc, md, fm>>

\* a post of the category cryp, as the posts of the site have it
KeysDoc ==
    MdFileWith(MdFile(TRUE, <<"K", "e", "y", "s">>, IsoDate(3)),
               [NoFields EXCEPT !.category = <<"c", "r", "y", "p">>,
                                !.excerpt = <<"R", "S", "A">>,
                                !.tags = ListTags(<<<<"h", "a", "s", "h">>>>)])

\* documents of the site: a.md has every field, no category, or no title
SiteDocs ==
    [AMd |-> {NoFile, FullDoc, ScalarTagsDoc, MdFile(TRUE, <<>>, IsoDate(1))},
     BMd |-> {NoFile, KeysDoc}]

EditSiteDoc ==
    \E p \in {AMd, BMd} :
    \E f \in (IF p = AMd THEN SiteDocs.AMd ELSE SiteDocs.BMd) :
        /\ fsys' = [fsys EXCEPT ![p] = f]
        /\ proc' = NoProc
        /\ UNCHANGED <<index, md, fm, web>>

\* the site is built, then the page is opened
SiteNext ==
    \/ EditSiteDoc
    \/ BlogBuildUpdateMetadata
    \/ OpenPage
    \/ RouterInit

SpecSite == CliInit /\ [][SiteNext]_vars

\* the index that update-metadata wrote for no document, for two and for
\* three
SiteIndexes ==
    LET a == PostEntry(AMd, FrontMatterOf(FullDoc))
        b == PostEntry(BMd, FrontMatterOf(MdFile(TRUE, <<"T">>, IsoDate(2))))
        c == PostEntry(CMd, FrontMatterOf(KeysDoc))
    IN  {<<>>, <<b, a>>, <<c, b, a>>}

RouterInitial ==
    /\ fsys = EmptyDir
    /\ index \in SiteIndexes
    /\ proc = NoProc
    /\ md = NoMd
    /\ fm = NoFm
    /\ web = NoWeb

RouterNext ==
    \/ OpenPage
    \/ RouterInit
    \/ Navigate
    \/ ClickCategoryLink
    \/ RouteEvent
    \/ ReinitializeComponents

SpecRouter == RouterInitial /\ [][RouterNext]_vars

SearchNext ==
    \/ OpenPage
    \/ RouterInit
    \/ Search

SpecSearch == RouterInitial /\ [][SearchNext]_vars

(* Claims about the page in the browser *)
\* C23: when the fetch of posts/metadata.json or the parsing of its body
\* fails, loadPosts has logged the error and has resolved with a list of
\* sample posts, so that init has registered the listeners of the router.
C23_FailedLoadFallsBack ==
    (\E i \in 1..Len(web.log) : web.log[i] = "Error loading posts")
        => /\ web.stage = "ready"
           /\ web.bound
           /\ web.posts # <<>>

\* C25: when the page loads an index that update-metadata wrote, loadPosts
\* keeps every entry: the posts list has one post for each entry of the
\* index, in the order of the index, and each post has a title, a date and
\* a category that are not empty.
C25_IndexEntriesAreValidPosts ==
    [][(web.stage = "loading" /\ web'.stage = "ready")
          => /\ Len(web'.posts) = Len(index)
             /\ \A i \in 1..Len(index) :
                   /\ web'.posts[i].url = index[i].url
                   /\ web'.posts[i].title = index[i].title
                   /\ web'.posts[i].title # <<>>
                   /\ web'.posts[i].date # NoDate
                   /\ web'.posts[i].category # <<>>]_vars

\* the page has loaded an index of two entries, one of them for a document
\* without a category
C25_Witness ==
    /\ web.stage = "ready"
    /\ IndexWritten
    /\ Len(index) = 2
    /\ Len(web.posts) = 2
    /\ \E i \in 1..2 : /\ fsys[AMd].fields.category = <<>>
                        /\ web.posts[i].url = <<".", "/", "p", "o", "s", "t", "s", "/", "a", ".", "h", "t", "m", "l">>
                        /\ web.posts[i].category = <<"g", "e", "n", "e", "r", "a", "l">>

\* the hash names a category route, and the slug it names
IsCategoryHash(hash) ==
    /\ Len(hash) >= 10
    /\ SubSeq(hash, 1, 10) = <<"#", "c", "a", "t", "e", "g", "o", "r", "y", "/">>

SlugOf(hash) == SubSeq(hash, 11, Len(hash))

HomeSections(w) == {w.main.search, w.main.categories, w.main.postsSection}

\* the links of the posts of a category, in the order of the posts list
RECURSIVE LinksOf(_, _)
LinksOf(posts, slug) ==
    IF posts = <<>> THEN <<>>
    ELSE (IF Head(posts).category = slug THEN <<Head(posts).url>> ELSE <<>>)
             \o LinksOf(Tail(posts), slug)

\* main shows the category page of the slug, with the posts of the category
\* or, when it has none, the item that says so, and no home section
CategoryPageShown(w, slug) ==
    /\ Len(w.main.pages) = 1
    /\ w.main.pages[1].slug = slug
    /\ w.main.pages[1].list.items = LinksOf(w.posts, slug)
    /\ (w.main.pages[1].list.note = "No posts in this category yet.")
          <=> (LinksOf(w.posts, slug) = <<>>)
    /\ HomeSections(w) \subseteq {"absent", "none"}

\* main shows the home sections and no category page
HomePageShown(w) ==
    /\ w.main.pages = <<>>
    /\ HomeSections(w) \subseteq {"", "block"}

\* C27: after each route event that the router handles, the page follows
\* location.hash: for a hash #category/<slug> currentRoute is
\* category/<slug> and the category page of <slug> is shown, with the item
\* 'No posts in this category yet.' when the category has no post; for
\* every other hash, the empty one and # included, currentRoute is '' and
\* the home page is shown.
C27_RouteFollowsHash ==
    [][(web.bound /\ web'.events < web.events)
          => IF IsCategoryHash(web'.hash)
             THEN /\ web'.currentRoute = <<"c", "a", "t", "e", "g", "o", "r", "y", "/">> \o SlugOf(web'.hash)
                  /\ CategoryPageShown(web', SlugOf(web'.hash))
             ELSE /\ web'.currentRoute = <<>>
                  /\ HomePageShown(web')]_vars

\* router.js shows the page of a category without posts, after it has
\* shown the home page
C27_Witness ==
    /\ web.variant = "replace"
    /\ web.bound
    /\ web.events = 0
    /\ web.timers > 0
    /\ web.hash = <<"#", "c", "a", "t", "e", "g", "o", "r", "y", "/", "n", "o", "n", "e">>
    /\ web.currentRoute = <<"c", "a", "t", "e", "g", "o", "r", "y", "/", "n", "o", "n", "e">>
    /\ web.posts # <<>>
    /\ Len(web.main.pages) = 1
    /\ web.main.pages[1].list.note = "No posts in this category yet."

IsCategoryRoute(route) ==
    /\ Len(route) >= 9
    /\ SubSeq(route, 1, 9) = <<"c", "a", "t", "e", "g", "o", "r", "y", "/">>

\* C28: in the variant that keeps the home sections, main never holds more
\* than one category page; it holds one exactly when currentRoute is a
\* category route, the three home sections are hidden in that case, and
\* they are displayed when currentRoute is ''.
C28_OneCategoryPage ==
    web.variant = "keep" =>
        /\ Len(web.main.pages) <= 1
        /\ Len(web.main.pages) = 1 <=> IsCategoryRoute(web.currentRoute)
        /\ IsCategoryRoute(web.currentRoute) => HomeSections(web) = {"none"}
        /\ web.currentRoute = <<>> => HomeSections(web) \subseteq {"", "block"}
        /\ IsCategoryRoute(web.currentRoute) \/ web.currentRoute = <<>>

\* a category page is shown after the home page was shown and another
\* route event is still to come
C28_Witness ==
    /\ web.variant = "keep"
    /\ IsCategoryRoute(web.currentRoute)
    /\ Len(web.main.pages) = 1
    /\ web.main.pages[1].list.items # <<>>
    /\ web.timers > 0
    /\ web.events > 0

\* C29: a continuation of reinitializeComponents that resumes while a
\* category route is shown changes neither the display of the home sections
\* nor the category page, and after every step of the page a category route
\* in currentRoute has its category page shown, with the posts of the
\* category.
C29_DelayedContinuationKeepsCategoryPage ==
    [][/\ IsCategoryRoute(web'.currentRoute)
            => CategoryPageShown(web', SubSeq(web'.currentRoute, 10,
                                               Len(web'.currentRoute)))
       /\ (web'.timers < web.timers /\ IsCategoryRoute(web.currentRoute))
            => /\ web'.main.pages = web.main.pages
               /\ HomeSections(web') = HomeSections(web)
               /\ web'.currentRoute = web.currentRoute]_vars

\* a category page with posts is shown while a continuation that
\* showHomePage started waits for its timer
C29_Witness ==
    /\ IsCategoryRoute(web.currentRoute)
    /\ web.timers > 0
    /\ web.events = 0
    /\ Len(web.main.pages) = 1
    /\ web.main.pages[1].list.items # <<>>
    /\ web.variant = "keep"
    /\ web.main.recent.note = "Loading posts..."

\* the letters of the texts of the posts, in lower case
Folded(text) ==
    [i \in 1..Len(text) |->
        CASE text[i] = "A" -> "a" [] text[i] = "C" -> "c" [] text[i] = "H" -> "h"
          [] text[i] = "K" -> "k" [] text[i] = "R" -> "r" [] text[i] = "S" -> "s"
          [] text[i] = "T" -> "t" [] OTHER -> text[i]]

Contains(text, part) ==
    \E i \in 0..(Len(text) - Len(part)) : SubSeq(text, i + 1, i + Len(part)) = part

\* the name under which the page shows a category
DisplayName(slug) ==
    CASE slug = <<"b", "l", "o", "c", "k", "c", "h", "a", "i", "n">> -> <<"B", "l", "o", "c", "k", "c", "h", "a", "i", "n">>
      [] slug = <<"c", "r", "y", "p", "t", "o", "g", "r", "a", "p", "h", "y">> -> <<"C", "r", "y", "p", "t", "o", "g", "r", "a", "p", "h", "y">>
      [] slug = <<"f", "r", "a", "g", "m", "e", "n", "t", "s">> -> <<"F", "r", "a", "g", "m", "e", "n", "t", "s">>
      [] slug = <<"m", "a", "t", "h", "e", "m", "a", "t", "i", "c", "s">> -> <<"M", "a", "t", "h", "e", "m", "a", "t", "i", "c", "s">>
      [] OTHER -> slug

\* the post is found by the term: its title, its excerpt, one of its tags
\* or the display name of its category contains it, case apart
Found(post, term) ==
    \/ Contains(Folded(post.title), term)
    \/ Contains(Folded(post.excerpt), term)
    \/ \E i \in 1..Len(post.tags) : Contains(Folded(post.tags[i]), term)
    \/ Contains(Folded(DisplayName(post.category)), term)

RECURSIVE FoundIn(_, _)
FoundIn(posts, term) ==
    IF posts = <<>> THEN <<>>
    ELSE (IF Found(Head(posts), term) THEN <<Head(posts)>> ELSE <<>>)
             \o FoundIn(Tail(posts), term)

=============================================================================
